---- MODULE Spec2Model ----
(***************************************************************************)
(* A state-machine model of the gameplay core: ProjectileSystem,           *)
(* EnemyManager, Enemy, and the Game that drives them.                     *)
(*                                                                         *)
(* Units.  Time is counted in tenths of a second (delta = 5 is 0.5 s).     *)
(* Lengths are counted in hundredths of a world unit and the world is      *)
(* restricted to one axis (the z axis, the axis of the default direction   *)
(* (0, 0, 1)), so a position is one integer and a direction is -1, 0 or 1. *)
(* A speed is therefore in hundredths of a unit per tenth of a second,     *)
(* which is the source's speed times 10.  spawnTimer and spawnInterval are *)
(* counted in microseconds, so that the factor 0.92 stays in the integers. *)
(* Arithmetic is exact: floating-point rounding is not modelled.           *)
(***************************************************************************)
EXTENDS Integers, Sequences, FiniteSets, TLC

VARIABLES
  heap,            \* the projectile objects ever constructed, by identity
  projectiles,     \* ProjectileSystem.projectiles: identities, in list order
  pool,            \* ProjectileSystem.pool: identities, in list order
  enemyEntries,    \* EnemyManager.enemyEntries: <<[enemy, deathTimer]>>
  pendingSpawns,   \* enemies constructed by spawnEnemy whose init() is pending
  enemiesCreated,  \* number of Enemy objects constructed (their identities)
  spawnTimer,      \* EnemyManager.spawnTimer
  wave,            \* EnemyManager.wave
  spawnInterval,   \* EnemyManager.spawnInterval
  maxActive,       \* EnemyManager.maxActive
  spawnQueue,      \* EnemyManager.spawnQueue
  waveInProgress,  \* EnemyManager.waveInProgress
  score,           \* Game.score
  playerHealth,    \* Game.playerStats.health
  isGameOver,      \* Game.isGameOver
  isRunning,       \* Game.isRunning
  weaponCooldown,  \* Game.weaponCooldown, in microseconds
  playerGroupPosition,  \* Game.player.group.position
  playerVelocity,  \* Game.player.velocity
  staleSpawns,     \* history: the enemies whose init() was pending at the last start()
  highWater,       \* history: the most projectiles ever active at one time
  twin,            \* history: the game the same starts and frames give when every
                   \* init() resolves before the frame after its request
  killed,          \* history: the enemies a projectile of the game killed since the
                   \* last start(), each with its type, in the order of the kills
  events           \* history of the last operation: what it did, in order

vars == <<heap, projectiles, pool, enemyEntries, pendingSpawns, enemiesCreated,
          spawnTimer, wave, spawnInterval, maxActive, spawnQueue,
          waveInProgress, score, playerHealth, isGameOver, isRunning,
          weaponCooldown, playerGroupPosition, playerVelocity, staleSpawns,
          highWater, twin, killed, events>>

projectileVars == <<heap, projectiles, pool, highWater>>
waveVars == <<spawnTimer, wave, spawnInterval, maxActive, spawnQueue, waveInProgress>>
gameVars == <<score, playerHealth, isGameOver, isRunning, weaponCooldown,
              playerGroupPosition, playerVelocity>>

(***************************************************************************)
(* Bounds of the model.                                                    *)
(***************************************************************************)
MaxProjectiles == 2   \* projectile objects ever constructed
MaxEnemies == 2       \* Enemy objects ever constructed
MaxSpawnTimer == 5000000   \* spawnTimer, in microseconds
MaxWaveEnemies == 27  \* Enemy objects ever constructed, where whole waves are spawned
MaxOverlapEnemies == 8   \* Enemy objects ever constructed, where spawns overlap
MaxPending == 2       \* spawnEnemy calls whose init() is pending, where spawns overlap
MaxWave == 18         \* the wave numbers a session is picked up at
MaxWaveSize == 50     \* Enemy objects ever constructed, from where a session is picked up
MaxCombatEnemies == 5  \* Enemy objects ever constructed, where the player shoots
MaxShots == 1          \* projectile objects ever constructed, in a game
MaxRematchEnemies == 6 \* Enemy objects ever constructed, in a game and the game after it
MaxSkirmishEnemies == 2  \* Enemy objects ever constructed, in the first seconds of a game
MaxVeteranEnemies == 28  \* Enemy objects ever constructed, in a game up to its third wave
MaxSessionEnemies == 7 \* Enemy objects ever constructed, in a game played to its end
MaxLoadingEnemies == 1 \* Enemy objects ever constructed, where init() takes its time
MaxLoading == 1        \* init() calls pending when a frame begins
MaxCrowdEnemies == 12  \* Enemy objects ever constructed, in a wave picked up at its start

(***************************************************************************)
(* Program constants.                                                      *)
(***************************************************************************)
DEFAULT_PROJECTILE_LIFETIME == 25
DEFAULT_SPAWN_INTERVAL == 3200000
DEFAULT_MAX_ACTIVE == 8
DEATH_CLEANUP_DELAY == 18

\* Game.playerStats, as constructed
playerStats == [maxHealth |-> 140, armor |-> 0]

\* Game.weaponDefinitions.pistol: projectileSpeed in hundredths of a unit per tenth
\* of a second, maxDistance in hundredths, cooldown = 1 / fireRate in microseconds
\* (1 / 5.5 s, truncated).
pistol == [damage |-> 22, projectileSpeed |-> 620, maxDistance |-> 7000,
           cooldown |-> 10000000 \div 55]

\* Player: DEFAULT_SPEED, DEFAULT_ACCELERATION, DEFAULT_DRAG (drag in tenths per
\* tenth of a second) and the z offset of the weapon mount.
DEFAULT_SPEED == 120
DEFAULT_ACCELERATION == 42
DEFAULT_DRAG == 14
WEAPON_MOUNT_OFFSET == 60

EnemyTypes == {"grunt", "runner", "brute"}

\* EnemyManager.enemyDefinitions; scale is in hundredths.
enemyDefinitions ==
  [t \in EnemyTypes |->
     CASE t = "grunt"  -> [maxHealth |-> 60, speed |-> 55, damage |-> 10, reward |-> 60,
                           attackRange |-> 190, attackCooldown |-> 14, scale |-> 105]
       [] t = "runner" -> [maxHealth |-> 40, speed |-> 85, damage |-> 8, reward |-> 80,
                           attackRange |-> 160, attackCooldown |-> 10, scale |-> 95]
       [] t = "brute"  -> [maxHealth |-> 140, speed |-> 36, damage |-> 18, reward |-> 150,
                           attackRange |-> 260, attackCooldown |-> 22, scale |-> 135]]

(***************************************************************************)
(* Vectors on one axis.                                                    *)
(***************************************************************************)
Abs(x) == IF x < 0 THEN -x ELSE x

Max(a, b) == IF a >= b THEN a ELSE b

Min(a, b) == IF a <= b THEN a ELSE b

\* Vector3.normalize: the zero vector stays zero.
normalize(d) == IF d > 0 THEN 1 ELSE IF d < 0 THEN -1 ELSE 0

\* Vector3.distanceToSquared
distanceToSquared(a, b) == (a - b) * (a - b)

(***************************************************************************)
(* The history variable.  One record per thing an operation did.           *)
(***************************************************************************)
NoEvent ==
  [kind |-> "none", proj |-> 0, enemy |-> 0, queried |-> FALSE, inside |-> FALSE,
   prevPos |-> 0, pos |-> 0, prevAge |-> 0, age |-> 0,
   speed |-> 0, maxDistance |-> 0, damage |-> 0, wasFatal |-> FALSE, reward |-> 0,
   hpBefore |-> 0, hpAfter |-> 0, aliveBefore |-> FALSE, enemiesAlive |-> 0,
   found |-> 0]

(***************************************************************************)
(* Enemy.                                                                  *)
(***************************************************************************)
\* Enemy.constructor.  fatalReturns is history: how often takeDamage returned true.
NewEnemy(id, type, spawnPosition) ==
  [id |-> id, type |-> type,
   position |-> spawnPosition,
   health |-> enemyDefinitions[type].maxHealth,
   isAlive |-> TRUE,
   timeSinceLastAttack |-> 0,
   boundingRadius |-> (12 * enemyDefinitions[type].scale) \div 10,
   fatalReturns |-> 0]

\* Enemy.takeDamage without its guard on isAlive.
takeDamageUnguarded(enemy, amount) ==
  IF enemy.health - amount <= 0
  THEN [enemy |-> [enemy EXCEPT !.health = 0, !.isAlive = FALSE,
                                !.fatalReturns = @ + 1],
        ret |-> TRUE]
  ELSE [enemy |-> [enemy EXCEPT !.health = @ - amount], ret |-> FALSE]

\* Enemy.takeDamage without the clamp of line 289.
takeDamageNoClamp(enemy, amount) ==
  IF ~enemy.isAlive
  THEN [enemy |-> enemy, ret |-> FALSE]
  ELSE IF enemy.health - amount <= 0
       THEN [enemy |-> [enemy EXCEPT !.health = @ - amount, !.isAlive = FALSE,
                                     !.fatalReturns = @ + 1],
             ret |-> TRUE]
       ELSE [enemy |-> [enemy EXCEPT !.health = @ - amount], ret |-> FALSE]

\* Enemy.takeDamage that forgets to clear isAlive on the fatal call.
takeDamageStaysAlive(enemy, amount) ==
  IF ~enemy.isAlive
  THEN [enemy |-> enemy, ret |-> FALSE]
  ELSE IF enemy.health - amount <= 0
       THEN [enemy |-> [enemy EXCEPT !.health = 0, !.fatalReturns = @ + 1],
             ret |-> TRUE]
       ELSE [enemy |-> [enemy EXCEPT !.health = @ - amount], ret |-> FALSE]

\* Enemy.takeDamage: the enemy after the call and the value returned.
takeDamage(enemy, amount) ==
  IF ~enemy.isAlive
  THEN [enemy |-> enemy, ret |-> FALSE]
  ELSE IF enemy.health - amount <= 0
       THEN [enemy |-> [enemy EXCEPT !.health = 0, !.isAlive = FALSE,
                                     !.fatalReturns = @ + 1],
             ret |-> TRUE]
       ELSE [enemy |-> [enemy EXCEPT !.health = @ - amount], ret |-> FALSE]

(***************************************************************************)
(* EnemyManager.handleProjectileImpact.                                    *)
(***************************************************************************)
\* The forEach of handleProjectileImpact with <= for <: the last of the nearest.
RECURSIVE scanEnemiesLastOnTie(_, _, _, _, _)
scanEnemiesLastOnTie(entries, k, position, hit, minDistance) ==
  IF k > Len(entries) THEN hit
  ELSE LET enemy == entries[k].enemy
           distance == distanceToSquared(enemy.position, position)
       IN IF ~enemy.isAlive
          THEN scanEnemiesLastOnTie(entries, k + 1, position, hit, minDistance)
          ELSE IF distance <= enemy.boundingRadius * enemy.boundingRadius
                  /\ (hit = 0 \/ distance <= minDistance)
               THEN scanEnemiesLastOnTie(entries, k + 1, position, k, distance)
               ELSE scanEnemiesLastOnTie(entries, k + 1, position, hit, minDistance)

\* The forEach of handleProjectileImpact from entry k on: hit is the index of
\* hitEnemy (0 is null); minDistance is Infinity while hit is 0.
RECURSIVE scanEnemies(_, _, _, _, _)
scanEnemies(entries, k, position, hit, minDistance) ==
  IF k > Len(entries) THEN hit
  ELSE LET enemy == entries[k].enemy
           distance == distanceToSquared(enemy.position, position)
       IN IF ~enemy.isAlive
          THEN scanEnemies(entries, k + 1, position, hit, minDistance)
          ELSE IF distance <= enemy.boundingRadius * enemy.boundingRadius
                  /\ (hit = 0 \/ distance < minDistance)
               THEN scanEnemies(entries, k + 1, position, k, distance)
               ELSE scanEnemies(entries, k + 1, position, hit, minDistance)

\* handleProjectileImpact that grants the reward on every hit.
handleProjectileImpactAlwaysReward(entries, position, damage) ==
  LET hit == scanEnemies(entries, 1, position, 0, 0)
  IN IF hit = 0
     THEN [entries |-> entries, hit |-> 0, enemy |-> 0, wasFatal |-> FALSE,
           reward |-> 0, damage |-> damage, hpBefore |-> 0, hpAfter |-> 0]
     ELSE LET hitEnemy == entries[hit].enemy
              td == takeDamage(hitEnemy, damage)
          IN [entries |-> [entries EXCEPT ![hit].enemy = td.enemy],
              hit |-> hit,
              enemy |-> hitEnemy.id,
              wasFatal |-> td.ret,
              reward |-> enemyDefinitions[hitEnemy.type].reward,
              damage |-> damage,
              hpBefore |-> hitEnemy.health,
              hpAfter |-> td.enemy.health]

\* The result object, and the roster after the call.  enemy = 0 is the null return.
handleProjectileImpact(entries, position, damage) ==
  LET hit == scanEnemies(entries, 1, position, 0, 0)
  IN IF hit = 0
     THEN [entries |-> entries, hit |-> 0, enemy |-> 0, wasFatal |-> FALSE,
           reward |-> 0, damage |-> damage, hpBefore |-> 0, hpAfter |-> 0]
     ELSE LET hitEnemy == entries[hit].enemy
              td == takeDamage(hitEnemy, damage)
          IN [entries |-> [entries EXCEPT ![hit].enemy = td.enemy],
              hit |-> hit,
              enemy |-> hitEnemy.id,
              wasFatal |-> td.ret,
              reward |-> IF td.ret THEN enemyDefinitions[hitEnemy.type].reward ELSE 0,
              damage |-> damage,
              hpBefore |-> hitEnemy.health,
              hpAfter |-> td.enemy.health]

(***************************************************************************)
(* History helpers: what the geometry says, stated on sets, not by the     *)
(* scan of the code.                                                       *)
(***************************************************************************)
\* The alive enemies of the roster whose hit-sphere contains the point.
AliveContaining(entries, position) ==
  {k \in 1..Len(entries) :
     /\ entries[k].enemy.isAlive
     /\ distanceToSquared(entries[k].enemy.position, position)
          <= entries[k].enemy.boundingRadius * entries[k].enemy.boundingRadius}

AliveCount(entries) ==
  Cardinality({k \in 1..Len(entries) : entries[k].enemy.isAlive})

(***************************************************************************)
(* ProjectileSystem.  Its operations work on a record                      *)
(* [projectiles, pool, heap, entries, events]: the two lists, the objects, *)
(* the roster of the enemyManager passed to update, and the history.       *)
(***************************************************************************)
\* The object literal of _getProjectile (the default direction is (0, 0, 1)).
\* age is history: the delta accumulated over the ticks since the spawn.
NewProjectile ==
  [position |-> 0, direction |-> 1, speed |-> 400, damage |-> 10,
   maxDistance |-> 5000, distanceTravelled |-> 0,
   timeToLive |-> DEFAULT_PROJECTILE_LIFETIME, active |-> FALSE, age |-> 0]

\* Array.splice(index, 1)
splice(seq, index) ==
  SubSeq(seq, 1, index - 1) \o SubSeq(seq, index + 1, Len(seq))

\* _getProjectile that reads the last pooled object and leaves it in the pool.
getProjectileNoPop(st) ==
  IF Len(st.pool) > 0
  THEN [id |-> st.pool[Len(st.pool)], st |-> st]
  ELSE [id |-> Len(st.heap) + 1,
        st |-> [st EXCEPT !.heap = Append(@, NewProjectile)]]

\* _getProjectile that constructs an object whatever the pool holds.
getProjectileAlwaysNew(st) ==
  [id |-> Len(st.heap) + 1,
   st |-> [st EXCEPT !.heap = Append(@, NewProjectile)]]

\* _getProjectile: the object returned and the system after the call.
getProjectile(st) ==
  IF Len(st.pool) > 0
  THEN [id |-> st.pool[Len(st.pool)],
        st |-> [st EXCEPT !.pool = SubSeq(@, 1, Len(@) - 1)]]
  ELSE [id |-> Len(st.heap) + 1,
        st |-> [st EXCEPT !.heap = Append(@, NewProjectile)]]

\* _deactivateProjectileAtIndex that forgets to reset distanceTravelled.
deactivateNoClear(st, index) ==
  IF index < 1 \/ index > Len(st.projectiles) THEN st
  ELSE LET id == st.projectiles[index]
       IN [st EXCEPT !.heap[id].active = FALSE,
                     !.heap[id].timeToLive = 0,
                     !.heap[id].age = 0,
                     !.projectiles = splice(@, index),
                     !.pool = Append(@, id)]

\* _deactivateProjectileAtIndex
deactivateProjectileAtIndex(st, index) ==
  IF index < 1 \/ index > Len(st.projectiles) THEN st
  ELSE LET id == st.projectiles[index]
       IN [st EXCEPT !.heap[id].active = FALSE,
                     !.heap[id].distanceTravelled = 0,
                     !.heap[id].timeToLive = 0,
                     !.heap[id].age = 0,
                     !.projectiles = splice(@, index),
                     !.pool = Append(@, id)]

\* spawnProjectile
spawnProjectile(st, position, direction, speed, damage, maxDistance) ==
  LET got == getProjectile(st)
      id == got.id
  IN [got.st EXCEPT
        !.heap[id] = [position |-> position,
                      direction |-> normalize(direction),
                      speed |-> speed,
                      damage |-> damage,
                      maxDistance |-> maxDistance,
                      distanceTravelled |-> 0,
                      timeToLive |-> DEFAULT_PROJECTILE_LIFETIME,
                      active |-> TRUE,
                      age |-> 0],
        !.projectiles = Append(@, id),
        !.highWater = Max(@, Len(got.st.projectiles) + 1),
        !.events = Append(@, [NoEvent EXCEPT !.kind = "fire", !.proj = id])]

\* An expiry test that forgets the lifetime.
expiredByRangeOnly(projectile) ==
  projectile.distanceTravelled >= projectile.maxDistance

\* The expiry test of update, line 66.
expired(projectile) ==
  \/ projectile.distanceTravelled >= projectile.maxDistance
  \/ projectile.timeToLive <= 0

\* What one iteration of update's loop records about projectile id.
StepEvent(st, id, before, after) ==
  [NoEvent EXCEPT !.proj = id,
                  !.prevPos = before.position, !.pos = after.position,
                  !.prevAge = before.age, !.age = after.age,
                  !.speed = after.speed, !.maxDistance = after.maxDistance,
                  !.damage = after.damage,
                  !.inside = AliveContaining(st.entries, after.position) # {},
                  !.enemiesAlive = AliveCount(st.entries)]

\* One iteration of update's loop that leaves a projectile that hit in flight.
updateStepKeepsFlying(st, i, delta) ==
  LET id == st.projectiles[i]
      projectile == st.heap[id]
  IN IF ~projectile.active
     THEN deactivateProjectileAtIndex(st, i)
     ELSE
       LET travelDistance == projectile.speed * delta
           moved == [projectile EXCEPT
                       !.position = @ + projectile.direction * travelDistance,
                       !.distanceTravelled = @ + travelDistance,
                       !.timeToLive = @ - delta,
                       !.age = @ + delta]
           st1 == [st EXCEPT !.heap[id] = moved]
           ev == StepEvent(st, id, projectile, moved)
       IN IF expired(moved)
          THEN deactivateProjectileAtIndex(
                 [st1 EXCEPT !.events = Append(@, [ev EXCEPT !.kind = "expire"])], i)
          ELSE
            LET impact == handleProjectileImpact(st1.entries, moved.position, moved.damage)
                st2 == [st1 EXCEPT !.entries = impact.entries]
            IN IF impact.enemy # 0
               THEN [st2 EXCEPT !.events =
                       Append(@, [ev EXCEPT !.kind = "hit", !.queried = TRUE,
                                            !.enemy = impact.enemy,
                                            !.wasFatal = impact.wasFatal,
                                            !.reward = impact.reward,
                                            !.hpBefore = impact.hpBefore,
                                            !.hpAfter = impact.hpAfter])]
               ELSE [st2 EXCEPT !.events =
                       Append(@, [ev EXCEPT !.kind = "fly", !.queried = TRUE])]

\* One iteration of update's loop without the continue of line 68: an expired
\* projectile is deactivated and then still queried.
updateStepNoContinue(st, i, delta) ==
  LET id == st.projectiles[i]
      projectile == st.heap[id]
      travelDistance == projectile.speed * delta
      moved == [projectile EXCEPT
                  !.position = @ + projectile.direction * travelDistance,
                  !.distanceTravelled = @ + travelDistance,
                  !.timeToLive = @ - delta,
                  !.age = @ + delta]
      st1 == [st EXCEPT !.heap[id] = moved]
      ev == StepEvent(st, id, projectile, moved)
      st2 == IF expired(moved)
             THEN deactivateProjectileAtIndex(
                    [st1 EXCEPT !.events = Append(@, [ev EXCEPT !.kind = "expire"])], i)
             ELSE st1
      impact == handleProjectileImpact(st2.entries, moved.position, moved.damage)
      st3 == [st2 EXCEPT !.entries = impact.entries]
  IN IF impact.enemy # 0
     THEN deactivateProjectileAtIndex(
            [st3 EXCEPT !.events =
               Append(@, [ev EXCEPT !.kind = "hit", !.queried = TRUE,
                                    !.enemy = impact.enemy,
                                    !.wasFatal = impact.wasFatal,
                                    !.reward = impact.reward,
                                    !.hpBefore = impact.hpBefore,
                                    !.hpAfter = impact.hpAfter])], i)
     ELSE IF expired(moved) THEN st3
     ELSE [st3 EXCEPT !.events = Append(@, [ev EXCEPT !.kind = "fly", !.queried = TRUE])]

\* One iteration of update's loop, for index i: lines 53 to 75.
updateStep(st, i, delta) ==
  LET id == st.projectiles[i]
      projectile == st.heap[id]
  IN IF ~projectile.active
     THEN deactivateProjectileAtIndex(st, i)
     ELSE
       LET travelDistance == projectile.speed * delta
           moved == [projectile EXCEPT
                       !.position = @ + projectile.direction * travelDistance,
                       !.distanceTravelled = @ + travelDistance,
                       !.timeToLive = @ - delta,
                       !.age = @ + delta]
           st1 == [st EXCEPT !.heap[id] = moved]
           ev == StepEvent(st, id, projectile, moved)
       IN IF expired(moved)
          THEN deactivateProjectileAtIndex(
                 [st1 EXCEPT !.events = Append(@, [ev EXCEPT !.kind = "expire"])], i)
          ELSE
            LET impact == handleProjectileImpact(st1.entries, moved.position, moved.damage)
                st2 == [st1 EXCEPT !.entries = impact.entries]
            IN IF impact.enemy # 0
               THEN deactivateProjectileAtIndex(
                      [st2 EXCEPT !.events =
                         Append(@, [ev EXCEPT !.kind = "hit", !.queried = TRUE,
                                              !.enemy = impact.enemy,
                                              !.wasFatal = impact.wasFatal,
                                              !.reward = impact.reward,
                                              !.hpBefore = impact.hpBefore,
                                              !.hpAfter = impact.hpAfter])], i)
               ELSE [st2 EXCEPT !.events =
                       Append(@, [ev EXCEPT !.kind = "fly", !.queried = TRUE])]

\* update's loop from index i down to 0.
RECURSIVE updateLoop(_, _, _)
updateLoop(st, i, delta) ==
  IF i < 1 THEN st
  ELSE updateLoop(updateStep(st, i, delta), i - 1, delta)

\* ProjectileSystem.update(delta, enemyManager, callbacks)
ProjectileSystem_update(st, delta) ==
  updateLoop(st, Len(st.projectiles), delta)

\* ProjectileSystem.reset with an if in place of the while.
resetLastOnly(st) ==
  IF Len(st.projectiles) > 0
  THEN deactivateProjectileAtIndex(st, Len(st.projectiles))
  ELSE st

\* ProjectileSystem.reset: the while loop.
RECURSIVE ProjectileSystem_reset(_)
ProjectileSystem_reset(st) ==
  IF Len(st.projectiles) > 0
  THEN ProjectileSystem_reset(deactivateProjectileAtIndex(st, Len(st.projectiles)))
  ELSE st

\* The record the ProjectileSystem operations work on, from the state.
System ==
  [projectiles |-> projectiles, pool |-> pool, heap |-> heap,
   highWater |-> highWater, entries |-> enemyEntries, events |-> <<>>]

\* The state after an operation that ended in record st.
Becomes(st) ==
  /\ projectiles' = st.projectiles
  /\ pool' = st.pool
  /\ heap' = st.heap
  /\ highWater' = st.highWater
  /\ enemyEntries' = st.entries
  /\ events' = st.events

(***************************************************************************)
(* Enemy.update                                                            *)
(***************************************************************************)
\* Enemy.update that keeps walking when in range.
Enemy_updateWalksInRange(enemy, delta, hasPlayer, playerPosition) ==
  IF ~enemy.isAlive THEN [enemy |-> enemy, attacked |-> FALSE]
  ELSE IF ~hasPlayer THEN [enemy |-> enemy, attacked |-> FALSE]
  ELSE
    LET config == enemyDefinitions[enemy.type]
        waited == enemy.timeSinceLastAttack + delta
        toPlayer == playerPosition - enemy.position
        distance == Abs(toPlayer)
        direction == IF distance > 0 THEN normalize(toPlayer) ELSE toPlayer
        walked == enemy.position + direction * (config.speed * delta)
    IN IF distance > config.attackRange
       THEN [enemy |-> [enemy EXCEPT !.timeSinceLastAttack = waited,
                                     !.position = walked],
             attacked |-> FALSE]
       ELSE IF waited >= config.attackCooldown
            THEN [enemy |-> [enemy EXCEPT !.timeSinceLastAttack = 0,
                                          !.position = walked],
                  attacked |-> TRUE]
            ELSE [enemy |-> [enemy EXCEPT !.timeSinceLastAttack = waited,
                                          !.position = walked],
                  attacked |-> FALSE]

\* Enemy.update that attacks on every tick in range, whatever the timer.
Enemy_updateNoCooldown(enemy, delta, hasPlayer, playerPosition) ==
  IF ~enemy.isAlive THEN [enemy |-> enemy, attacked |-> FALSE]
  ELSE IF ~hasPlayer THEN [enemy |-> enemy, attacked |-> FALSE]
  ELSE
    LET config == enemyDefinitions[enemy.type]
        waited == enemy.timeSinceLastAttack + delta
        toPlayer == playerPosition - enemy.position
        distance == Abs(toPlayer)
        direction == IF distance > 0 THEN normalize(toPlayer) ELSE toPlayer
    IN IF distance > config.attackRange
       THEN [enemy |-> [enemy EXCEPT !.timeSinceLastAttack = waited,
                                     !.position = @ + direction * (config.speed * delta)],
             attacked |-> FALSE]
       ELSE [enemy |-> [enemy EXCEPT !.timeSinceLastAttack = 0], attacked |-> TRUE]

\* Enemy.update whose timer runs only while the enemy is in range.
Enemy_updateTimerInRangeOnly(enemy, delta, hasPlayer, playerPosition) ==
  IF ~enemy.isAlive THEN [enemy |-> enemy, attacked |-> FALSE]
  ELSE IF ~hasPlayer THEN [enemy |-> enemy, attacked |-> FALSE]
  ELSE
    LET config == enemyDefinitions[enemy.type]
        waited == enemy.timeSinceLastAttack + delta
        toPlayer == playerPosition - enemy.position
        distance == Abs(toPlayer)
        direction == IF distance > 0 THEN normalize(toPlayer) ELSE toPlayer
    IN IF distance > config.attackRange
       THEN [enemy |-> [enemy EXCEPT !.position = @ + direction * (config.speed * delta)],
             attacked |-> FALSE]
       ELSE IF waited >= config.attackCooldown
            THEN [enemy |-> [enemy EXCEPT !.timeSinceLastAttack = 0], attacked |-> TRUE]
            ELSE [enemy |-> [enemy EXCEPT !.timeSinceLastAttack = waited],
                  attacked |-> FALSE]

\* Enemy.update(delta, {playerPosition, onAttack}): the enemy after the call and
\* whether onAttack was called.  hasPlayer is FALSE for an undefined playerPosition.
Enemy_update(enemy, delta, hasPlayer, playerPosition) ==
  IF ~enemy.isAlive THEN [enemy |-> enemy, attacked |-> FALSE]
  ELSE IF ~hasPlayer THEN [enemy |-> enemy, attacked |-> FALSE]
  ELSE
    LET config == enemyDefinitions[enemy.type]
        waited == enemy.timeSinceLastAttack + delta
        toPlayer == playerPosition - enemy.position
        distance == Abs(toPlayer)
        direction == IF distance > 0 THEN normalize(toPlayer) ELSE toPlayer
    IN IF distance > config.attackRange
       THEN [enemy |-> [enemy EXCEPT !.timeSinceLastAttack = waited,
                                     !.position = @ + direction * (config.speed * delta)],
             attacked |-> FALSE]
       ELSE IF waited >= config.attackCooldown
            THEN [enemy |-> [enemy EXCEPT !.timeSinceLastAttack = 0], attacked |-> TRUE]
            ELSE [enemy |-> [enemy EXCEPT !.timeSinceLastAttack = waited],
                  attacked |-> FALSE]

\* Enemy.update without its guard on isAlive.
Enemy_updateUnguarded(enemy, delta, hasPlayer, playerPosition) ==
  Enemy_update([enemy EXCEPT !.isAlive = TRUE], delta, hasPlayer, playerPosition)

(***************************************************************************)
(* EnemyManager.  Its operations work on a record m of its fields, the     *)
(* pending spawns and the history.                                         *)
(***************************************************************************)
spawnRadius == 2800

\* A wave composition with runners from wave 2 on and one brute per fourth wave.
waveCompositionEarlyRunners(w) ==
  [grunt |-> 5 + w * 2,
   runner |-> IF w >= 2 THEN w \div 2 ELSE 0,
   brute |-> IF w % 4 = 0 THEN 1 ELSE 0]

\* The wave composition of _enqueueWaveComposition before the sort, as counts.
waveComposition(w) ==
  [grunt |-> 5 + w * 2,
   runner |-> IF w >= 3 THEN w \div 2 ELSE 0,
   brute |-> IF w % 4 = 0 THEN 1 + (w \div 6) ELSE 0]

\* Every order of g grunts, r runners and b brutes: what the sort with a random
\* comparator can produce.
RECURSIVE orders(_, _, _)
orders(g, r, b) ==
  IF g = 0 /\ r = 0 /\ b = 0 THEN {<<>>}
  ELSE (IF g > 0 THEN {<<"grunt">> \o s : s \in orders(g - 1, r, b)} ELSE {})
       \cup (IF r > 0 THEN {<<"runner">> \o s : s \in orders(g, r - 1, b)} ELSE {})
       \cup (IF b > 0 THEN {<<"brute">> \o s : s \in orders(g, r, b - 1)} ELSE {})

\* _enqueueWaveComposition: the queues it can leave.
enqueueWaveComposition(queue, w) ==
  LET c == waveComposition(w)
  IN {queue \o s : s \in orders(c.grunt, c.runner, c.brute)}

\* n tokens of one type, as the for loops of _enqueueWaveComposition push them.
repeat(token, n) == [i \in 1..n |-> token]

\* Two of the orders the sort can leave: the order of the pushes and its reverse.
sampleWaveComposition(queue, w) ==
  LET c == waveComposition(w)
      pushed == repeat("grunt", c.grunt) \o repeat("runner", c.runner)
                  \o repeat("brute", c.brute)
  IN {queue \o pushed, queue \o [i \in 1..Len(pushed) |-> pushed[Len(pushed) + 1 - i]]}

\* spawnInterval after k escalations of _handleSpawning.
RECURSIVE spawnIntervalAfter(_)
spawnIntervalAfter(k) ==
  IF k = 0 THEN DEFAULT_SPAWN_INTERVAL
  ELSE Max(900000, (spawnIntervalAfter(k - 1) * 92) \div 100)

\* _countActiveEnemies
countActiveEnemies(entries) ==
  Cardinality({k \in 1..Len(entries) : entries[k].enemy.isAlive})

\* spawnEnemy up to its await: an unknown type returns null, a known one constructs
\* the enemy, whose init() is then pending.
spawnEnemy(m, type, spawnPosition) ==
  IF type \notin DOMAIN enemyDefinitions
  THEN [m EXCEPT !.events = Append(@, [NoEvent EXCEPT !.kind = "spawnNull"])]
  ELSE [m EXCEPT !.created = @ + 1,
                 !.pending = @ \cup {NewEnemy(m.created + 1, type, spawnPosition)},
                 !.events = Append(@, [NoEvent EXCEPT !.kind = "spawn",
                                                      !.enemy = m.created + 1,
                                                      !.pos = spawnPosition])]

\* spawnEnemy after its await: init() has set boundingRadius (or left it, when the
\* model failed to load) and the entry is pushed.
resolveSpawn(m, enemy, radius) ==
  [m EXCEPT !.pending = @ \ {enemy},
            !.entries = Append(@, [enemy |-> [enemy EXCEPT !.boundingRadius = radius],
                                   deathTimer |-> 0])]

\* _maybeScheduleNewWave that looks at the queue only, not at the roster.
maybeScheduleNewWaveQueueOnly(m, shuffled) ==
  IF m.waveInProgress THEN m
  ELSE IF Len(m.spawnQueue) = 0
       THEN [m EXCEPT !.waveInProgress = TRUE,
                      !.spawnQueue = shuffled,
                      !.spawnTimer = m.spawnInterval,
                      !.events = Append(@, [NoEvent EXCEPT !.kind = "compose"])]
       ELSE m

\* _maybeScheduleNewWave, with the queue the shuffle leaves.
maybeScheduleNewWave(m, shuffled) ==
  IF m.waveInProgress THEN m
  ELSE IF Len(m.entries) = 0 /\ Len(m.spawnQueue) = 0
       THEN [m EXCEPT !.waveInProgress = TRUE,
                      !.spawnQueue = shuffled,
                      !.spawnTimer = m.spawnInterval,
                      !.events = Append(@, [NoEvent EXCEPT !.kind = "compose"])]
       ELSE m

\* _handleSpawning without its test of the number of alive enemies.
handleSpawningAnyCount(m, spawnPosition) ==
  IF ~m.waveInProgress \/ Len(m.spawnQueue) = 0 THEN m
  ELSE IF m.spawnTimer < m.spawnInterval THEN m
  ELSE
    LET nextType == Head(m.spawnQueue)
        m1 == spawnEnemy([m EXCEPT !.spawnTimer = 0, !.spawnQueue = Tail(@)],
                         nextType, spawnPosition)
    IN IF Len(m1.spawnQueue) = 0
       THEN [m1 EXCEPT !.wave = @ + 1,
                       !.waveInProgress = FALSE,
                       !.spawnInterval = Max(900000, (@ * 92) \div 100),
                       !.maxActive = Min(24, @ + 1)]
       ELSE m1

\* _handleSpawning that drops the head of the queue when the roster is full.
handleSpawningDropsWhenFull(m, spawnPosition) ==
  IF ~m.waveInProgress \/ Len(m.spawnQueue) = 0 THEN m
  ELSE IF m.spawnTimer < m.spawnInterval THEN m
  ELSE IF countActiveEnemies(m.entries) >= m.maxActive
       THEN [m EXCEPT !.spawnQueue = Tail(@)]
  ELSE
    LET nextType == Head(m.spawnQueue)
        m1 == spawnEnemy([m EXCEPT !.spawnTimer = 0, !.spawnQueue = Tail(@)],
                         nextType, spawnPosition)
    IN IF Len(m1.spawnQueue) = 0
       THEN [m1 EXCEPT !.wave = @ + 1,
                       !.waveInProgress = FALSE,
                       !.spawnInterval = Max(900000, (@ * 92) \div 100),
                       !.maxActive = Min(24, @ + 1)]
       ELSE m1

\* _handleSpawning whose escalation has neither floor nor cap.
handleSpawningUnclamped(m, spawnPosition) ==
  IF ~m.waveInProgress \/ Len(m.spawnQueue) = 0 THEN m
  ELSE IF m.spawnTimer < m.spawnInterval THEN m
  ELSE IF countActiveEnemies(m.entries) >= m.maxActive THEN m
  ELSE
    LET nextType == Head(m.spawnQueue)
        m1 == spawnEnemy([m EXCEPT !.spawnTimer = 0, !.spawnQueue = Tail(@)],
                         nextType, spawnPosition)
    IN IF Len(m1.spawnQueue) = 0
       THEN [m1 EXCEPT !.wave = @ + 1,
                       !.waveInProgress = FALSE,
                       !.spawnInterval = (@ * 92) \div 100,
                       !.maxActive = @ + 1]
       ELSE m1

\* _handleSpawning that looks the type up before the shift and leaves a token
\* without a definition at the head of the queue.
handleSpawningKeepsUnknown(m, spawnPosition) ==
  IF ~m.waveInProgress \/ Len(m.spawnQueue) = 0 THEN m
  ELSE IF m.spawnTimer < m.spawnInterval THEN m
  ELSE IF countActiveEnemies(m.entries) >= m.maxActive THEN m
  ELSE IF Head(m.spawnQueue) \notin DOMAIN enemyDefinitions
  THEN spawnEnemy([m EXCEPT !.spawnTimer = 0], Head(m.spawnQueue), spawnPosition)
  ELSE
    LET nextType == Head(m.spawnQueue)
        m1 == spawnEnemy([m EXCEPT !.spawnTimer = 0, !.spawnQueue = Tail(@)],
                         nextType, spawnPosition)
    IN IF Len(m1.spawnQueue) = 0
       THEN [m1 EXCEPT !.wave = @ + 1,
                       !.waveInProgress = FALSE,
                       !.spawnInterval = Max(900000, (@ * 92) \div 100),
                       !.maxActive = Min(24, @ + 1)]
       ELSE m1

\* _handleSpawning whose escalation takes Math.min for Math.max and the reverse.
handleSpawningSwappedBounds(m, spawnPosition) ==
  IF ~m.waveInProgress \/ Len(m.spawnQueue) = 0 THEN m
  ELSE IF m.spawnTimer < m.spawnInterval THEN m
  ELSE IF countActiveEnemies(m.entries) >= m.maxActive THEN m
  ELSE
    LET nextType == Head(m.spawnQueue)
        m1 == spawnEnemy([m EXCEPT !.spawnTimer = 0, !.spawnQueue = Tail(@)],
                         nextType, spawnPosition)
    IN IF Len(m1.spawnQueue) = 0
       THEN [m1 EXCEPT !.wave = @ + 1,
                       !.waveInProgress = FALSE,
                       !.spawnInterval = Min(900000, (@ * 92) \div 100),
                       !.maxActive = Max(24, @ + 1)]
       ELSE m1

\* _handleSpawning without its test of the spawn timer.
handleSpawningAnyTime(m, spawnPosition) ==
  IF ~m.waveInProgress \/ Len(m.spawnQueue) = 0 THEN m
  ELSE IF countActiveEnemies(m.entries) >= m.maxActive THEN m
  ELSE
    LET nextType == Head(m.spawnQueue)
        m1 == spawnEnemy([m EXCEPT !.spawnTimer = 0, !.spawnQueue = Tail(@)],
                         nextType, spawnPosition)
    IN IF Len(m1.spawnQueue) = 0
       THEN [m1 EXCEPT !.wave = @ + 1,
                       !.waveInProgress = FALSE,
                       !.spawnInterval = Max(900000, (@ * 92) \div 100),
                       !.maxActive = Min(24, @ + 1)]
       ELSE m1

\* _handleSpawning that abandons the rest of the wave when the roster is full.
handleSpawningAbandonsWhenFull(m, spawnPosition) ==
  IF ~m.waveInProgress \/ Len(m.spawnQueue) = 0 THEN m
  ELSE IF m.spawnTimer < m.spawnInterval THEN m
  ELSE IF countActiveEnemies(m.entries) >= m.maxActive
       THEN [m EXCEPT !.spawnQueue = <<>>, !.waveInProgress = FALSE]
  ELSE
    LET nextType == Head(m.spawnQueue)
        m1 == spawnEnemy([m EXCEPT !.spawnTimer = 0, !.spawnQueue = Tail(@)],
                         nextType, spawnPosition)
    IN IF Len(m1.spawnQueue) = 0
       THEN [m1 EXCEPT !.wave = @ + 1,
                       !.waveInProgress = FALSE,
                       !.spawnInterval = Max(900000, (@ * 92) \div 100),
                       !.maxActive = Min(24, @ + 1)]
       ELSE m1

\* _handleSpawning, with the position _getSpawnPositionRelativeTo returns.
handleSpawning(m, spawnPosition) ==
  IF ~m.waveInProgress \/ Len(m.spawnQueue) = 0 THEN m
  ELSE IF m.spawnTimer < m.spawnInterval THEN m
  ELSE IF countActiveEnemies(m.entries) >= m.maxActive THEN m
  ELSE
    LET nextType == Head(m.spawnQueue)
        m1 == spawnEnemy([m EXCEPT !.spawnTimer = 0, !.spawnQueue = Tail(@)],
                         nextType, spawnPosition)
    IN IF Len(m1.spawnQueue) = 0
       THEN [m1 EXCEPT !.wave = @ + 1,
                       !.waveInProgress = FALSE,
                       !.spawnInterval = Max(900000, (@ * 92) \div 100),
                       !.maxActive = Min(24, @ + 1)]
       ELSE m1

\* A roster loop that also updates the dead.
rosterStepUpdatesDead(m, i, delta, hasPlayer, playerPosition) ==
  LET enemy == m.entries[i].enemy
      u == Enemy_updateUnguarded(enemy, delta, hasPlayer, playerPosition)
  IN [m EXCEPT !.entries[i].enemy = [u.enemy EXCEPT !.isAlive = enemy.isAlive],
               !.events = IF u.attacked
                          THEN Append(@, [NoEvent EXCEPT
                                 !.kind = "attack", !.enemy = enemy.id,
                                 !.damage = enemyDefinitions[enemy.type].damage,
                                 !.prevPos = enemy.position,
                                 !.pos = u.enemy.position,
                                 !.prevAge = enemy.timeSinceLastAttack + delta])
                          ELSE @]

\* A roster loop that removes a dead enemy only once its timer has passed the delay.
rosterStepPastDelay(m, i, delta, hasPlayer, playerPosition) ==
  LET entry == m.entries[i]
      enemy == entry.enemy
  IN IF enemy.isAlive
     THEN LET u == Enemy_update(enemy, delta, hasPlayer, playerPosition)
          IN [m EXCEPT !.entries[i].enemy = u.enemy,
                       !.events = IF u.attacked
                                  THEN Append(@, [NoEvent EXCEPT
                                         !.kind = "attack", !.enemy = enemy.id,
                                         !.damage = enemyDefinitions[enemy.type].damage,
                                         !.prevPos = enemy.position,
                                         !.pos = u.enemy.position,
                                         !.prevAge = enemy.timeSinceLastAttack + delta])
                                  ELSE @]
     ELSE IF entry.deathTimer + delta > DEATH_CLEANUP_DELAY
          THEN [m EXCEPT !.entries = splice(@, i),
                         !.events = Append(@, [NoEvent EXCEPT
                                        !.kind = "dispose", !.enemy = enemy.id,
                                        !.prevAge = entry.deathTimer,
                                        !.age = entry.deathTimer + delta])]
          ELSE [m EXCEPT !.entries[i].deathTimer = @ + delta]

\* One iteration of the roster loop of EnemyManager.update, for index i.
rosterStep(m, i, delta, hasPlayer, playerPosition) ==
  LET entry == m.entries[i]
      enemy == entry.enemy
  IN IF enemy.isAlive
     THEN LET u == Enemy_update(enemy, delta, hasPlayer, playerPosition)
          IN [m EXCEPT !.entries[i].enemy = u.enemy,
                       !.events = IF u.attacked
                                  THEN Append(@, [NoEvent EXCEPT
                                         !.kind = "attack", !.enemy = enemy.id,
                                         !.damage = enemyDefinitions[enemy.type].damage,
                                         !.prevPos = enemy.position,
                                         !.pos = u.enemy.position,
                                         !.prevAge = enemy.timeSinceLastAttack + delta])
                                  ELSE @]
     ELSE IF entry.deathTimer + delta >= DEATH_CLEANUP_DELAY
          THEN [m EXCEPT !.entries = splice(@, i),
                         !.events = Append(@, [NoEvent EXCEPT
                                        !.kind = "dispose", !.enemy = enemy.id,
                                        !.prevAge = entry.deathTimer,
                                        !.age = entry.deathTimer + delta])]
          ELSE [m EXCEPT !.entries[i].deathTimer = @ + delta]

RECURSIVE rosterLoop(_, _, _, _, _)
rosterLoop(m, i, delta, hasPlayer, playerPosition) ==
  IF i < 1 THEN m
  ELSE rosterLoop(rosterStep(m, i, delta, hasPlayer, playerPosition),
                  i - 1, delta, hasPlayer, playerPosition)

\* EnemyManager.update(delta, {playerPosition, onPlayerDamaged}), with the two
\* random draws it may make.
EnemyManager_update(m, delta, hasPlayer, playerPosition, shuffled, spawnPosition) ==
  LET m1 == [m EXCEPT !.spawnTimer = @ + delta * 100000,
                      !.events = Append(@, [NoEvent EXCEPT
                                     !.kind = "tick", !.age = delta,
                                     !.queried = hasPlayer, !.pos = playerPosition])]
      m2 == maybeScheduleNewWave(m1, shuffled)
      m3 == handleSpawning(m2, spawnPosition)
  IN rosterLoop(m3, Len(m3.entries), delta, hasPlayer, playerPosition)

\* EnemyManager.reset that also puts the difficulty back to its defaults.
EnemyManager_resetRestoresDifficulty(m) ==
  [m EXCEPT !.entries = <<>>,
            !.spawnQueue = <<>>,
            !.wave = 1,
            !.spawnTimer = 0,
            !.waveInProgress = FALSE,
            !.spawnInterval = DEFAULT_SPAWN_INTERVAL,
            !.maxActive = DEFAULT_MAX_ACTIVE,
            !.events = Append(@, [NoEvent EXCEPT !.kind = "reset"])]

\* EnemyManager.reset
EnemyManager_reset(m) ==
  [m EXCEPT !.entries = <<>>,
            !.spawnQueue = <<>>,
            !.wave = 1,
            !.spawnTimer = 0,
            !.waveInProgress = FALSE,
            !.events = Append(@, [NoEvent EXCEPT !.kind = "reset"])]

\* The record the EnemyManager operations work on, from the state.
Manager ==
  [entries |-> enemyEntries, pending |-> pendingSpawns, created |-> enemiesCreated,
   spawnTimer |-> spawnTimer, wave |-> wave, spawnInterval |-> spawnInterval,
   maxActive |-> maxActive, spawnQueue |-> spawnQueue,
   waveInProgress |-> waveInProgress, events |-> <<>>]

\* The state after an EnemyManager operation that ended in record m.
ManagerBecomes(m) ==
  /\ enemyEntries' = m.entries
  /\ pendingSpawns' = m.pending
  /\ enemiesCreated' = m.created
  /\ spawnTimer' = m.spawnTimer
  /\ wave' = m.wave
  /\ spawnInterval' = m.spawnInterval
  /\ maxActive' = m.maxActive
  /\ spawnQueue' = m.spawnQueue
  /\ waveInProgress' = m.waveInProgress
  /\ events' = m.events

(***************************************************************************)
(* Game.  Its operations work on a record g of its fields, with the        *)
(* projectile system in g.st, the enemy manager in g.m and the history of  *)
(* the operation in g.events.  The camera, the HUD and the floating texts  *)
(* are not modelled.                                                       *)
(***************************************************************************)
\* Player.update(delta, {aimPoint, movementLocked}): _updateMovement with the axis
\* the input gives.  The drag factor is max(1 - drag * delta, 0), which is 0 for
\* every delta of a tenth of a second or more.  The turn towards the aim point
\* is not modelled.
Player_update(g, delta, axis) ==
  IF g.isGameOver
  THEN [g EXCEPT !.velocity = 0,
                 !.events = Append(@, [NoEvent EXCEPT !.kind = "move",
                                         !.prevPos = g.position, !.pos = g.position])]
  ELSE
    LET accelerated == g.velocity + normalize(axis) * DEFAULT_ACCELERATION * delta
        capped == IF Abs(accelerated) > DEFAULT_SPEED
                  THEN normalize(accelerated) * DEFAULT_SPEED
                  ELSE accelerated
        dragged == (capped * Max(10 - DEFAULT_DRAG * delta, 0)) \div 10
    IN [g EXCEPT !.velocity = dragged,
                 !.position = @ + dragged * delta,
                 !.events = Append(@, [NoEvent EXCEPT !.kind = "move",
                                         !.prevPos = g.position,
                                         !.pos = g.position + dragged * delta])]

\* Game._fireCurrentWeapon: the muzzle is the weapon mount, the direction goes from
\* the muzzle to the aim point, or is the player's world direction (0, 0, 1) when
\* the two coincide.  On one axis the spread leaves the direction as it is.
fireCurrentWeapon(g, aimPoint) ==
  LET muzzleWorldPosition == g.position + WEAPON_MOUNT_OFFSET
      toAim == aimPoint - muzzleWorldPosition
      shotDirection == IF toAim = 0 THEN 1 ELSE normalize(toAim)
      st == spawnProjectile([g.st EXCEPT !.events = g.events], muzzleWorldPosition,
                            shotDirection, pistol.projectileSpeed, pistol.damage,
                            pistol.maxDistance)
  IN [g EXCEPT !.st = st, !.events = st.events, !.weaponCooldown = pistol.cooldown]

\* Game._handleWeapons that fires without looking at the cooldown.
handleWeaponsNoCooldown(g, delta, shooting, aimPoint) ==
  LET cooled == [g EXCEPT !.weaponCooldown = Max(0, @ - delta * 100000)]
  IN IF shooting THEN fireCurrentWeapon(cooled, aimPoint) ELSE cooled

\* Game._handleWeapons
handleWeapons(g, delta, shooting, aimPoint) ==
  LET cooled == [g EXCEPT !.weaponCooldown = Max(0, @ - delta * 100000)]
  IN IF shooting /\ cooled.weaponCooldown <= 0
     THEN fireCurrentWeapon(cooled, aimPoint)
     ELSE cooled

\* Game._onPlayerDeath that leaves isGameOver as it is.
onPlayerDeathKeepsPlaying(g) ==
  IF g.isGameOver THEN g
  ELSE LET st == ProjectileSystem_reset([g.st EXCEPT !.events = <<>>])
       IN [g EXCEPT !.st = st,
                    !.events = Append(@, [NoEvent EXCEPT !.kind = "gameOver",
                                            !.hpAfter = g.health,
                                            !.reward = g.score])]

\* Game._onPlayerDeath
onPlayerDeath(g) ==
  IF g.isGameOver THEN g
  ELSE LET st == ProjectileSystem_reset([g.st EXCEPT !.events = <<>>])
       IN [g EXCEPT !.isGameOver = TRUE,
                    !.st = st,
                    !.events = Append(@, [NoEvent EXCEPT !.kind = "gameOver",
                                            !.hpAfter = g.health,
                                            !.reward = g.score])]

\* Game._handlePlayerDamage that subtracts the damage without the clamp at 0.
handlePlayerDamageNoClamp(g, damage, enemy) ==
  IF g.isGameOver THEN g
  ELSE
    LET mitigatedDamage == Max(1, damage - playerStats.armor)
        health == g.health - mitigatedDamage
        g1 == [g EXCEPT !.health = health,
                        !.events = Append(@, [NoEvent EXCEPT !.kind = "playerDamage",
                                                !.enemy = enemy,
                                                !.damage = mitigatedDamage,
                                                !.hpBefore = g.health,
                                                !.hpAfter = health])]
    IN IF health <= 0 THEN onPlayerDeath(g1) ELSE g1

\* Game._handlePlayerDamage
handlePlayerDamage(g, damage, enemy) ==
  IF g.isGameOver THEN g
  ELSE
    LET mitigatedDamage == Max(1, damage - playerStats.armor)
        health == Max(0, g.health - mitigatedDamage)
        g1 == [g EXCEPT !.health = health,
                        !.events = Append(@, [NoEvent EXCEPT !.kind = "playerDamage",
                                                !.enemy = enemy,
                                                !.damage = mitigatedDamage,
                                                !.hpBefore = g.health,
                                                !.hpAfter = health])]
    IN IF health <= 0 THEN onPlayerDeath(g1) ELSE g1

\* Game._handleEnemyHit that also scores the damage of an impact that did not kill.
handleEnemyHitScoresDamage(g, impact) ==
  IF impact.enemy = 0 THEN g
  ELSE IF impact.wasFatal /\ impact.reward > 0
       THEN [g EXCEPT !.score = @ + impact.reward]
       ELSE [g EXCEPT !.score = @ + impact.damage]

\* Game._handleEnemyHit
handleEnemyHit(g, impact) ==
  IF impact.enemy = 0 THEN g
  ELSE IF impact.wasFatal /\ impact.reward > 0
       THEN [g EXCEPT !.score = @ + impact.reward]
       ELSE g

\* The enemy manager's tick as Game.update sees it: what the manager did, in order,
\* each attack followed by what the onPlayerDamaged callback did (none is given
\* when the game was over before the tick).
RECURSIVE deliverAttacks(_, _, _, _)
deliverAttacks(g, evs, i, hasCallback) ==
  IF i > Len(evs) THEN g
  ELSE LET g1 == [g EXCEPT !.events = Append(@, evs[i])]
       IN deliverAttacks(IF evs[i].kind = "attack" /\ hasCallback
                         THEN handlePlayerDamage(g1, evs[i].damage, evs[i].enemy)
                         ELSE g1,
                         evs, i + 1, hasCallback)

\* The projectile system's tick as Game.update sees it: each hit followed by what
\* the onEnemyHit callback did.  killed is history: the enemy of a hit for which
\* takeDamage returned true, with the type of its entry in the roster.
RECURSIVE deliverHits(_, _, _)
deliverHits(g, evs, i) ==
  IF i > Len(evs) THEN g
  ELSE LET g1 == [g EXCEPT
                    !.events = Append(@, evs[i]),
                    !.killed =
                      IF evs[i].kind = "hit" /\ evs[i].wasFatal
                      THEN Append(@, [id |-> evs[i].enemy,
                                      type |-> g.m.entries[
                                        CHOOSE k \in 1..Len(g.m.entries) :
                                          g.m.entries[k].enemy.id = evs[i].enemy].enemy.type])
                      ELSE @]
       IN deliverHits(IF evs[i].kind = "hit" THEN handleEnemyHit(g1, evs[i]) ELSE g1,
                      evs, i + 1)

\* The third phase of Game.update: enemyManager.update
enemyPhase(g, delta, shuffled, side, extra) ==
  LET spawnPosition == g.position + side * (spawnRadius + extra)
      m == EnemyManager_update([g.m EXCEPT !.events = <<>>], delta, TRUE, g.position,
                               shuffled, spawnPosition)
  IN deliverAttacks([g EXCEPT !.m = m], m.events, 1, ~g.isGameOver)

\* The fourth phase of Game.update: projectileSystem.update
projectilePhase(g, delta) ==
  LET st == ProjectileSystem_update([g.st EXCEPT !.entries = g.m.entries,
                                              !.events = <<>>], delta)
  IN deliverHits([g EXCEPT !.st = st, !.m.entries = st.entries], st.events, 1)

\* Game.update that moves the projectiles before the enemies.
Game_updateProjectilesFirst(g, delta, axis, shooting, aimPoint, shuffled, side, extra) ==
  LET g0 == [g EXCEPT !.events = <<[NoEvent EXCEPT !.kind = "frame", !.age = delta]>>]
      g1 == Player_update(g0, delta, axis)
      g2 == IF ~g1.isGameOver THEN handleWeapons(g1, delta, shooting, aimPoint) ELSE g1
      g3 == projectilePhase(g2, delta)
  IN enemyPhase(g3, delta, shuffled, side, extra)

\* Game.update that handles the weapons also when the game is over.
Game_updateArmedWhenOver(g, delta, axis, shooting, aimPoint, shuffled, side, extra) ==
  LET g0 == [g EXCEPT !.events = <<[NoEvent EXCEPT !.kind = "frame", !.age = delta]>>]
      g1 == Player_update(g0, delta, axis)
      g2 == handleWeapons(g1, delta, shooting, aimPoint)
      g3 == enemyPhase(g2, delta, shuffled, side, extra)
  IN projectilePhase(g3, delta)

\* Game.update(delta), with the inputs it reads and the random draws of the
\* enemy manager.
Game_update(g, delta, axis, shooting, aimPoint, shuffled, side, extra) ==
  LET g0 == [g EXCEPT !.events = <<[NoEvent EXCEPT !.kind = "frame", !.age = delta]>>]
      g1 == Player_update(g0, delta, axis)
      g2 == IF ~g1.isGameOver THEN handleWeapons(g1, delta, shooting, aimPoint) ELSE g1
      g3 == enemyPhase(g2, delta, shuffled, side, extra)
  IN projectilePhase(g3, delta)

\* Game._resetGameState that leaves the player's health as it is.
resetGameStateKeepsHealth(g) ==
  LET m == EnemyManager_reset([g.m EXCEPT !.events = g.events])
      st == ProjectileSystem_reset([g.st EXCEPT !.entries = <<>>, !.events = <<>>])
  IN [g EXCEPT !.score = 0,
               !.isGameOver = FALSE,
               !.weaponCooldown = 0,
               !.position = 0,
               !.velocity = 0,
               !.m = m,
               !.st = st,
               !.killed = <<>>,
               !.events = Append(m.events, [NoEvent EXCEPT !.kind = "restart",
                                              !.hpBefore = g.health,
                                              !.reward = g.score,
                                              !.enemiesAlive = countActiveEnemies(g.m.entries)])]

\* Game._resetGameState.  The "restart" event is history: the health, the score and
\* the enemies alive that the reset found.
resetGameState(g) ==
  LET m == EnemyManager_reset([g.m EXCEPT !.events = g.events])
      st == ProjectileSystem_reset([g.st EXCEPT !.entries = <<>>, !.events = <<>>])
  IN [g EXCEPT !.score = 0,
               !.isGameOver = FALSE,
               !.weaponCooldown = 0,
               !.health = playerStats.maxHealth,
               !.position = 0,
               !.velocity = 0,
               !.m = m,
               !.st = st,
               !.killed = <<>>,
               !.events = Append(m.events, [NoEvent EXCEPT !.kind = "restart",
                                              !.hpBefore = g.health,
                                              !.reward = g.score,
                                              !.enemiesAlive = countActiveEnemies(g.m.entries)])]

\* Game.start
Game_start(g) ==
  IF g.isRunning /\ ~g.isGameOver THEN g
  ELSE [resetGameState(g) EXCEPT !.isRunning = TRUE]

\* Every pending init() of the game resolves, in the order of the requests, and
\* leaves the radius the constructor set.
RECURSIVE settle(_)
settle(g) ==
  IF g.m.pending = {} THEN g
  ELSE LET enemy == CHOOSE e \in g.m.pending : \A o \in g.m.pending : e.id <= o.id
       IN settle([g EXCEPT !.m = resolveSpawn(g.m, enemy, enemy.boundingRadius)])

\* The record the Game operations work on, from the state.
Game ==
  [score |-> score, health |-> playerHealth, isGameOver |-> isGameOver,
   isRunning |-> isRunning, weaponCooldown |-> weaponCooldown,
   position |-> playerGroupPosition, velocity |-> playerVelocity,
   st |-> System, m |-> Manager, killed |-> killed, events |-> <<>>]

\* The state after a Game operation that ended in record g.
GameBecomes(g) ==
  /\ score' = g.score
  /\ playerHealth' = g.health
  /\ isGameOver' = g.isGameOver
  /\ isRunning' = g.isRunning
  /\ weaponCooldown' = g.weaponCooldown
  /\ playerGroupPosition' = g.position
  /\ playerVelocity' = g.velocity
  /\ projectiles' = g.st.projectiles
  /\ pool' = g.st.pool
  /\ heap' = g.st.heap
  /\ highWater' = g.st.highWater
  /\ enemyEntries' = g.m.entries
  /\ pendingSpawns' = g.m.pending
  /\ enemiesCreated' = g.m.created
  /\ spawnTimer' = g.m.spawnTimer
  /\ wave' = g.m.wave
  /\ spawnInterval' = g.m.spawnInterval
  /\ maxActive' = g.m.maxActive
  /\ spawnQueue' = g.m.spawnQueue
  /\ waveInProgress' = g.m.waveInProgress
  /\ killed' = g.killed
  /\ events' = g.events

(***************************************************************************)
(* The state machine.                                                      *)
(***************************************************************************)
Init ==
  /\ heap = <<>>
  /\ projectiles = <<>>
  /\ pool = <<>>
  /\ enemyEntries = <<>>
  /\ pendingSpawns = {}
  /\ enemiesCreated = 0
  /\ spawnTimer = 0
  /\ wave = 1
  /\ spawnInterval = DEFAULT_SPAWN_INTERVAL
  /\ maxActive = DEFAULT_MAX_ACTIVE
  /\ spawnQueue = <<>>
  /\ waveInProgress = FALSE
  /\ score = 0
  /\ playerHealth = playerStats.maxHealth
  /\ isGameOver = FALSE
  /\ isRunning = FALSE
  /\ weaponCooldown = 0
  /\ playerGroupPosition = 0
  /\ playerVelocity = 0
  /\ staleSpawns = {}
  /\ highWater = 0
  /\ killed = <<>>
  /\ events = <<>>
  /\ twin = Game

\* projectileSystem.spawnProjectile({position, direction, speed, damage, maxDistance})
SpawnProjectile(directions, speeds, damages, ranges) ==
  /\ Len(pool) > 0 \/ Len(heap) < MaxProjectiles
  /\ \E direction \in directions, speed \in speeds, damage \in damages,
        maxDistance \in ranges :
       Becomes(spawnProjectile(System, 0, direction, speed, damage, maxDistance))
  /\ UNCHANGED <<pendingSpawns, enemiesCreated, waveVars, gameVars, staleSpawns, twin, killed>>

\* projectileSystem.update(delta, enemyManager, {onEnemyHit})
ProjectileUpdate(deltas) ==
  /\ \E delta \in deltas : Becomes(ProjectileSystem_update(System, delta))
  /\ UNCHANGED <<pendingSpawns, enemiesCreated, waveVars, gameVars, staleSpawns, twin, killed>>

\* projectileSystem.reset().  found is history: the active projectiles it found.
ProjectileReset ==
  /\ Becomes([ProjectileSystem_reset(System) EXCEPT
                !.events = <<[NoEvent EXCEPT !.kind = "resetProjectiles",
                                             !.found = Len(projectiles)]>>])
  /\ UNCHANGED <<pendingSpawns, enemiesCreated, waveVars, gameVars, staleSpawns, twin, killed>>

\* enemyManager.spawnEnemy(type, spawnPosition), up to its await
SpawnEnemy(tokens, positions) ==
  /\ \E type \in tokens, spawnPosition \in positions :
       LET m == spawnEnemy(Manager, type, spawnPosition)
       IN /\ m.created <= MaxEnemies
          /\ ManagerBecomes(m)
  /\ UNCHANGED <<projectileVars, gameVars, staleSpawns, twin, killed>>

\* a pending spawnEnemy resumes after await enemy.init(); radii are the values
\* max(size.x, size.z) * 0.35 of a loaded model can take (none: the load failed)
ResolveSpawn(radii) ==
  /\ \E enemy \in pendingSpawns :
       \E radius \in {enemy.boundingRadius} \cup radii :
         ManagerBecomes([resolveSpawn(Manager, enemy, radius) EXCEPT
                           !.events = <<[NoEvent EXCEPT !.kind = "joined",
                                                        !.enemy = enemy.id]>>])
  /\ UNCHANGED <<projectileVars, gameVars, staleSpawns, twin, killed>>

\* enemyManager.handleProjectileImpact(projectile, damage), called on its own
HandleProjectileImpact(positions, damages) ==
  /\ \E position \in positions, damage \in damages :
       LET impact == handleProjectileImpact(enemyEntries, position, damage)
       IN /\ enemyEntries' = impact.entries
          /\ events' = <<[NoEvent EXCEPT
                            !.kind = "impact", !.pos = position, !.damage = impact.damage,
                            !.enemy = impact.enemy, !.wasFatal = impact.wasFatal,
                            !.reward = impact.reward, !.hpBefore = impact.hpBefore,
                            !.hpAfter = impact.hpAfter,
                            !.inside = AliveContaining(enemyEntries, position) # {}]>>
  /\ UNCHANGED <<projectileVars, pendingSpawns, enemiesCreated, waveVars, gameVars, staleSpawns, twin, killed>>

\* enemy.takeDamage(amount) on an enemy of the roster
TakeDamage(amounts) ==
  /\ \E k \in 1..Len(enemyEntries), amount \in amounts :
       LET enemy == enemyEntries[k].enemy
           td == takeDamage(enemy, amount)
       IN /\ enemyEntries' = [enemyEntries EXCEPT ![k].enemy = td.enemy]
          /\ events' = <<[NoEvent EXCEPT
                            !.kind = "takeDamage", !.enemy = enemy.id, !.damage = amount,
                            !.wasFatal = td.ret, !.aliveBefore = enemy.isAlive,
                            !.hpBefore = enemy.health, !.hpAfter = td.enemy.health]>>
  /\ UNCHANGED <<projectileVars, pendingSpawns, enemiesCreated, waveVars, gameVars, staleSpawns, twin, killed>>

\* enemyManager.reset()
EnemyManagerReset ==
  /\ ManagerBecomes(EnemyManager_reset(Manager))
  /\ UNCHANGED <<projectileVars, gameVars, staleSpawns, twin, killed>>

\* _getSpawnPositionRelativeTo(playerPosition): on the axis the angle leaves the
\* two sides (1 and -1), and extras are the values random * 10 can take, in hundredths.
spawnPositionsRelativeTo(hasPlayer, playerPosition, sides, extras) ==
  {(IF hasPlayer THEN playerPosition ELSE 0) + side * (spawnRadius + extra) :
     side \in sides, extra \in extras}

\* enemyManager.update(delta, {playerPosition, onPlayerDamaged})
EnemyManagerUpdate(deltas, players, sides, extras) ==
  /\ \E delta \in deltas, player \in players :
       \E shuffled \in enqueueWaveComposition(spawnQueue, wave),
          spawnPosition \in spawnPositionsRelativeTo(player.has, player.position, sides, extras) :
         LET m == EnemyManager_update(Manager, delta, player.has, player.position,
                                      shuffled, spawnPosition)
         IN /\ spawnTimer + delta * 100000 <= MaxSpawnTimer
            /\ m.created <= MaxEnemies
            /\ ManagerBecomes(m)
  /\ UNCHANGED <<projectileVars, gameVars, staleSpawns, twin, killed>>

\* enemyManager.update(delta, {}) with no playerPosition: the enemies stand where
\* _getRandomSpawnPosition put them, here always spawnRadius away on one side.
\* limit bounds the enemies ever constructed, inFlight the init() calls pending;
\* sampled draws the shuffle from two orders instead of all.
WaveUpdate(deltas, limit, inFlight, sampled) ==
  /\ \E delta \in deltas :
       \E shuffled \in (IF waveInProgress \/ Len(enemyEntries) > 0 \/ Len(spawnQueue) > 0
                        THEN {spawnQueue}   \* no wave is composed: nothing is drawn
                        ELSE IF sampled THEN sampleWaveComposition(spawnQueue, wave)
                        ELSE enqueueWaveComposition(spawnQueue, wave)),
          spawnPosition \in spawnPositionsRelativeTo(FALSE, 0, {1}, {0}) :
         LET m == EnemyManager_update(Manager, delta, FALSE, 0, shuffled, spawnPosition)
         IN /\ spawnTimer + delta * 100000 <= MaxSpawnTimer
            /\ m.created <= limit
            /\ Cardinality(m.pending) <= inFlight
            /\ ManagerBecomes(m)
  /\ UNCHANGED <<projectileVars, gameVars, staleSpawns, twin, killed>>

\* enemyManager.update(delta, {}) as in WaveUpdate, for as long as the game loop
\* runs: a tick is left out only when it would leave spawnTimer above
\* MaxSpawnTimer, so a tick that spawns (and zeroes the timer) is never left out.
WaveTick(deltas, limit, inFlight) ==
  /\ \E delta \in deltas :
       \E shuffled \in (IF waveInProgress \/ Len(enemyEntries) > 0 \/ Len(spawnQueue) > 0
                        THEN {spawnQueue}   \* no wave is composed: nothing is drawn
                        ELSE sampleWaveComposition(spawnQueue, wave)),
          spawnPosition \in spawnPositionsRelativeTo(FALSE, 0, {1}, {0}) :
         LET m == EnemyManager_update(Manager, delta, FALSE, 0, shuffled, spawnPosition)
         IN /\ m.spawnTimer <= MaxSpawnTimer
            /\ m.created <= limit
            /\ Cardinality(m.pending) <= inFlight
            /\ ManagerBecomes(m)
  /\ UNCHANGED <<projectileVars, gameVars, staleSpawns, twin, killed>>

\* game.start(): the click on the start button
GameStart ==
  /\ ~isRunning \/ isGameOver
  /\ GameBecomes(Game_start(Game))
  /\ staleSpawns' = {enemy.id : enemy \in pendingSpawns}
  /\ twin' = Game_start(twin)

\* game.start() while the game is running and not over: a click on the start
\* button, whose listener stays attached.  The "start" event is history.
GameStartWhileRunning ==
  /\ isRunning /\ ~isGameOver
  /\ GameBecomes([Game_start(Game) EXCEPT
                    !.events = Append(@, [NoEvent EXCEPT !.kind = "start"])])
  /\ twin' = Game_start(twin)
  /\ UNCHANGED staleSpawns

\* game.update(delta), called by the animation loop while the game is running.
\* axes, shots and aims are what the input gives, sides and extras the draws of
\* _getSpawnPositionRelativeTo; limit bounds the enemies ever constructed, waiting
\* the init() calls still pending when the frame begins and fired the projectile
\* objects ever constructed.
GameUpdate(deltas, axes, shots, aims, sides, extras, limit, waiting, fired) ==
  /\ isRunning
  /\ Cardinality(pendingSpawns) <= waiting
  /\ \E delta \in deltas, axis \in axes, shooting \in shots, aimPoint \in aims,
        side \in sides, extra \in extras :
       \E shuffled \in (IF waveInProgress \/ Len(enemyEntries) > 0 \/ Len(spawnQueue) > 0
                        THEN {spawnQueue}   \* no wave is composed: nothing is drawn
                        ELSE sampleWaveComposition(spawnQueue, wave)) :
         LET g == Game_update(Game, delta, axis, shooting, aimPoint, shuffled, side, extra)
             composing == ~twin.m.waveInProgress /\ Len(twin.m.entries) = 0
                            /\ Len(twin.m.spawnQueue) = 0
             drawn == IF ~composing THEN twin.m.spawnQueue
                      ELSE IF shuffled \in sampleWaveComposition(twin.m.spawnQueue,
                                                                  twin.m.wave)
                           THEN shuffled
                           ELSE CHOOSE q \in sampleWaveComposition(twin.m.spawnQueue,
                                                                    twin.m.wave) : TRUE
         IN /\ spawnTimer + delta * 100000 <= MaxSpawnTimer
            /\ g.m.created <= limit
            /\ Len(g.st.heap) <= fired
            /\ GameBecomes(g)
            /\ twin' = IF [twin EXCEPT !.events = <<>>] = Game
                        THEN settle(g)   \* the same frame from the same game
                        ELSE settle(Game_update(twin, delta, axis, shooting, aimPoint,
                                                drawn, side, extra))
  /\ UNCHANGED staleSpawns

\* The positions of the enemies of the roster.
RosterPositions ==
  {enemyEntries[k].enemy.position : k \in 1..Len(enemyEntries)}

(***************************************************************************)
(* Spec: the projectile system firing at a standing roster.  Shots of      *)
(* 5 units per second with a range of 7.5 units, ticks of 1 s and 1.5 s,   *)
(* grunts standing at 4.5 and 6.5 units whose models failed to load.       *)
(***************************************************************************)
Next ==
  \/ SpawnProjectile({2}, {50}, {22}, {750})
  \/ ProjectileUpdate({10, 15})
  \/ ProjectileReset
  \/ SpawnEnemy({"grunt"}, {450, 650})
  \/ ResolveSpawn({})
  \/ EnemyManagerReset

Spec == Init /\ [][Next]_vars

(***************************************************************************)
(* SpecProjectiles: the projectile system alone, no enemy ever spawned.    *)
(***************************************************************************)
NextProjectiles ==
  \/ SpawnProjectile({-2}, {100}, {22}, {1000, 7000})
  \/ ProjectileUpdate({5, 7})
  \/ ProjectileReset

SpecProjectiles == Init /\ [][NextProjectiles]_vars

(***************************************************************************)
(* SpecRoster: the impact query and takeDamage on a standing roster.       *)
(***************************************************************************)
NextRoster ==
  \/ SpawnEnemy({"grunt", "runner", "drone"}, {450, 550})
  \/ ResolveSpawn({})
  \/ HandleProjectileImpact({350, 480, 500}, {30, 60})
  \/ TakeDamage({0, 30, 60})
  \/ EnemyManagerReset

SpecRoster == Init /\ [][NextRoster]_vars

(***************************************************************************)
(* SpecEnemies: the enemy manager ticking in steps of 1 s and 1.5 s, with   *)
(* the player standing at 0, enemies spawned 28 units away on one side,    *)
(* and fatal impacts landing on them.                                      *)
(***************************************************************************)
NextEnemies ==
  \/ EnemyManagerUpdate({10, 15}, {[has |-> TRUE, position |-> 0]}, {1}, {0})
  \/ ResolveSpawn({})
  \/ HandleProjectileImpact(RosterPositions, {60})
  \/ EnemyManagerReset

SpecEnemies == Init /\ [][NextEnemies]_vars

(***************************************************************************)
(* SpecCleanup: as SpecEnemies, but update is given no playerPosition, so  *)
(* the living stand still, and ticks are of 0.6 s and 1.2 s, so that a     *)
(* death timer reaches 1.8 s exactly (0.6 + 1.2) or steps over it          *)
(* (1.2 + 1.2).                                                            *)
(***************************************************************************)
NextCleanup ==
  \/ EnemyManagerUpdate({6, 12}, {[has |-> FALSE, position |-> 0]}, {1}, {0})
  \/ ResolveSpawn({})
  \/ HandleProjectileImpact(RosterPositions, {60})
  \/ EnemyManagerReset

SpecCleanup == Init /\ [][NextCleanup]_vars

(***************************************************************************)
(* SpecWaves: whole waves.  The manager ticks in steps of 1.6 s with no    *)
(* player position, every enemy stands at the one spawn position, fatal    *)
(* impacts land there, and the init() of an enemy completes before the     *)
(* next enemy is constructed.                                              *)
(***************************************************************************)
NextWaves ==
  \/ WaveUpdate({16}, MaxWaveEnemies, 1, FALSE)
  \/ ResolveSpawn({})
  \/ HandleProjectileImpact({spawnRadius}, {60})

SpecWaves == Init /\ [][NextWaves]_vars

(***************************************************************************)
(* SpecOverlap: as SpecWaves, with up to MaxPending init() calls pending   *)
(* at once, which resolve in any order and at any time.                    *)
(***************************************************************************)
NextOverlap ==
  \/ WaveUpdate({16}, MaxOverlapEnemies, MaxPending, FALSE)
  \/ ResolveSpawn({})
  \/ HandleProjectileImpact({spawnRadius}, {60})

SpecOverlap == Init /\ [][NextOverlap]_vars

(***************************************************************************)
(* SpecSpacing: the first wave and the start of the second, as SpecWaves,  *)
(* in ticks of 0.6 s and 1.6 s.                                            *)
(***************************************************************************)
NextSpacing ==
  \/ WaveUpdate({6, 16}, MaxOverlapEnemies, 1, FALSE)
  \/ ResolveSpawn({})
  \/ HandleProjectileImpact({spawnRadius}, {60})

SpecSpacing == Init /\ [][NextSpacing]_vars

(***************************************************************************)
(* SpecDifficulty: a session picked up between two waves, at any wave up   *)
(* to MaxWave: the waves before were spawned, killed and removed, and each *)
(* escalated the difficulty once.  From there the manager ticks in steps   *)
(* of 1 s and 1.6 s and no init() resolves, so nothing joins the roster.   *)
(***************************************************************************)
InitDifficulty ==
  /\ heap = <<>>
  /\ projectiles = <<>>
  /\ pool = <<>>
  /\ enemyEntries = <<>>
  /\ pendingSpawns = {}
  /\ enemiesCreated = 0
  /\ spawnTimer = 0
  /\ wave \in 1..MaxWave
  /\ spawnInterval = spawnIntervalAfter(wave - 1)
  /\ maxActive = Min(24, DEFAULT_MAX_ACTIVE + wave - 1)
  /\ spawnQueue = <<>>
  /\ waveInProgress = FALSE
  /\ score = 0
  /\ playerHealth = playerStats.maxHealth
  /\ isGameOver = FALSE
  /\ isRunning = FALSE
  /\ weaponCooldown = 0
  /\ playerGroupPosition = 0
  /\ playerVelocity = 0
  /\ staleSpawns = {}
  /\ highWater = 0
  /\ killed = <<>>
  /\ events = <<>>
  /\ twin = Game

NextDifficulty ==
  \/ WaveUpdate({10, 16}, MaxWaveSize, MaxWaveSize, TRUE)

SpecDifficulty == InitDifficulty /\ [][NextDifficulty]_vars

(***************************************************************************)
(* SpecUnknown: the composition of a wave holds one token that             *)
(* enemyDefinitions lacks (a composition and a table of definitions that   *)
(* disagree), at any place of the queue.  The manager ticks in steps of    *)
(* 0.6 s and 1.6 s for as long as the game loop runs, which is what the    *)
(* fairness condition says; no init() resolves, so nothing joins the       *)
(* roster.                                                                 *)
(***************************************************************************)
\* the queues _enqueueWaveComposition leaves when one of its tokens is one of `tokens`
misconfiguredComposition(queues, tokens) ==
  {[k \in 1..Len(queue) |-> IF k = j THEN token ELSE queue[k]] :
     <<queue, j, token>> \in {q \in queues \X (1..MaxWaveSize) \X tokens :
                                q[2] <= Len(q[1])}}

\* enemyManager.update(delta, {playerPosition}) with such a composition
MisconfiguredUpdate(deltas, tokens, limit) ==
  /\ \E delta \in deltas :
       \E shuffled \in (IF waveInProgress \/ Len(enemyEntries) > 0 \/ Len(spawnQueue) > 0
                        THEN {spawnQueue}
                        ELSE misconfiguredComposition(
                               sampleWaveComposition(spawnQueue, wave), tokens)),
          spawnPosition \in spawnPositionsRelativeTo(FALSE, 0, {1}, {0}) :
         LET m == EnemyManager_update(Manager, delta, FALSE, 0, shuffled, spawnPosition)
         IN /\ spawnTimer + delta * 100000 <= MaxSpawnTimer
            /\ m.created <= limit
            /\ ManagerBecomes(m)
  /\ UNCHANGED <<projectileVars, gameVars, staleSpawns, twin, killed>>

NextUnknown ==
  \/ MisconfiguredUpdate({6, 16}, {"drone"}, MaxOverlapEnemies)

SpecUnknown ==
  /\ Init
  /\ [][NextUnknown]_vars
  /\ WF_vars(MisconfiguredUpdate({6, 16}, {"drone"}, MaxOverlapEnemies))

(***************************************************************************)
(* SpecCombat: a game in frames of 0.2 s.  The player stands at the origin *)
(* and shoots, or not, along +z, one shot in flight at a time; the enemies *)
(* spawn 28.8 units away on that side, and each init() resolves before the *)
(* next frame.  A shot lands 13 units away in its first frame and 25.4     *)
(* units away in its second; a grunt walks 1.1 units a frame, is within    *)
(* reach of the second landing for three frames and of the first for two,  *)
(* and is in range of the player after 25 frames.  The game can be played  *)
(* until the player dies, and started again.                               *)
(***************************************************************************)
NextCombat ==
  \/ GameStart
  \/ GameUpdate({2}, {0}, {TRUE, FALSE}, {1000}, {1}, {80}, MaxCombatEnemies, 0, MaxShots)
  \/ ResolveSpawn({})

SpecCombat == Init /\ [][NextCombat]_vars

(***************************************************************************)
(* SpecRematch: the game of SpecCombat with one enemy more, the one that   *)
(* the game started after the player's death spawns, and can shoot.        *)
(***************************************************************************)
NextRematch ==
  \/ GameStart
  \/ GameUpdate({2}, {0}, {TRUE, FALSE}, {1000}, {1}, {80}, MaxRematchEnemies, 0, MaxShots)
  \/ ResolveSpawn({})

SpecRematch == Init /\ [][NextRematch]_vars

\* The number of tokens _enqueueWaveComposition pushes for wave w.
WaveSize(w) ==
  waveComposition(w).grunt + waveComposition(w).runner + waveComposition(w).brute

(***************************************************************************)
(* SpecVeteran: a game picked up between its second and its third wave.    *)
(* The sixteen grunts of the first two waves were shot, which scored their *)
(* rewards and escalated the difficulty twice; the last of them was shot   *)
(* as it spawned and left the roster DEATH_CLEANUP_DELAY later, so the     *)
(* roster is empty, the shot is pooled and the player is unhurt.           *)
(* From there the game runs in frames of 1.6 s: wave 3 brings eleven       *)
(* grunts and a runner, whose damages do not divide the player's health.   *)
(***************************************************************************)
InitVeteran ==
  /\ heap = <<[NewProjectile EXCEPT !.position = 1300, !.speed = pistol.projectileSpeed,
                                    !.damage = pistol.damage,
                                    !.maxDistance = pistol.maxDistance,
                                    !.timeToLive = 0]>>
  /\ projectiles = <<>>
  /\ pool = <<1>>
  /\ enemyEntries = <<>>
  /\ pendingSpawns = {}
  /\ enemiesCreated = WaveSize(1) + WaveSize(2)
  /\ spawnTimer = DEATH_CLEANUP_DELAY * 100000
  /\ wave = 3
  /\ spawnInterval = spawnIntervalAfter(2)
  /\ maxActive = DEFAULT_MAX_ACTIVE + 2
  /\ spawnQueue = <<>>
  /\ waveInProgress = FALSE
  /\ killed = [k \in 1..(WaveSize(1) + WaveSize(2)) |-> [id |-> k, type |-> "grunt"]]
  /\ score = (WaveSize(1) + WaveSize(2)) * enemyDefinitions["grunt"].reward
  /\ playerHealth = playerStats.maxHealth
  /\ isGameOver = FALSE
  /\ isRunning = TRUE
  /\ weaponCooldown = 0
  /\ playerGroupPosition = 0
  /\ playerVelocity = 0
  /\ staleSpawns = {}
  /\ highWater = 1
  /\ events = <<>>
  /\ twin = Game

NextVeteran ==
  \/ GameStart
  \/ GameStartWhileRunning
  \/ GameUpdate({16}, {0}, {TRUE, FALSE}, {1000}, {1}, {0}, MaxVeteranEnemies, 0, MaxShots)
  \/ ResolveSpawn({})

SpecVeteran == InitVeteran /\ [][NextVeteran]_vars

(***************************************************************************)
(* SpecSkirmish: the first seconds of the game of SpecCombat, until the    *)
(* third grunt is due: time for the first two grunts to be shot at and     *)
(* hit on their way to the player, not for the player to die.              *)
(***************************************************************************)
NextSkirmish ==
  \/ GameStart
  \/ GameUpdate({2}, {0}, {TRUE, FALSE}, {1000}, {1}, {80}, MaxSkirmishEnemies, 0,
                MaxShots)
  \/ ResolveSpawn({})

SpecSkirmish == Init /\ [][NextSkirmish]_vars

(***************************************************************************)
(* SpecSession: a game in frames of 1.6 s, played until the player dies    *)
(* and started again.  A grunt walks 8.8 units a frame and is in range     *)
(* after three; a shot is out of range within its first frame.             *)
(***************************************************************************)
NextSession ==
  \/ GameStart
  \/ GameUpdate({16}, {0}, {TRUE, FALSE}, {1000}, {1}, {0}, MaxSessionEnemies, 0, MaxShots)
  \/ ResolveSpawn({})

SpecSession == Init /\ [][NextSession]_vars

(***************************************************************************)
(* SpecCrowd: a session picked up before its third wave (twelve enemies,   *)
(* maxActive 10), as in SpecDifficulty, where the enemies spawned join the *)
(* roster, with up to MaxPending init() calls pending at once, and nothing *)
(* kills them.                                                             *)
(***************************************************************************)
InitCrowd == InitDifficulty /\ wave = 3

NextCrowd ==
  \/ WaveUpdate({16}, MaxCrowdEnemies, MaxPending, TRUE)
  \/ ResolveSpawn({})

SpecCrowd == InitCrowd /\ [][NextCrowd]_vars

(***************************************************************************)
(* SpecDeferred: the third wave of SpecCrowd (twelve enemies, maxActive     *)
(* 10): the manager ticks in steps of 1.6 s, the init() calls resolve one  *)
(* at a time, and fatal impacts may land on the enemies at any time, or    *)
(* never.  How often the game loop ticks and the init() calls resolve is   *)
(* left to the properties.                                                 *)
(***************************************************************************)
NextDeferred ==
  \/ WaveTick({16}, MaxCrowdEnemies, 1)
  \/ ResolveSpawn({})
  \/ HandleProjectileImpact({spawnRadius}, {60})

SpecDeferred == InitCrowd /\ [][NextDeferred]_vars

(***************************************************************************)
(* SpecLoading: the game of SpecCombat where an init() can still be        *)
(* pending when the next frames run, as when the model of the enemy is     *)
(* loaded for the first time.                                              *)
(***************************************************************************)
NextLoading ==
  \/ GameStart
  \/ GameUpdate({2}, {0}, {TRUE, FALSE}, {1000}, {1}, {80}, MaxLoadingEnemies,
                MaxLoading, MaxShots)
  \/ ResolveSpawn({})

SpecLoading == Init /\ [][NextLoading]_vars

(***************************************************************************)
(* Properties of the pool and of a projectile's flight.                    *)
(***************************************************************************)
InList(seq, x) == \E j \in 1..Len(seq) : seq[j] = x

NoRepeat(seq) == \A i, j \in 1..Len(seq) : i # j => seq[i] # seq[j]

\* The events of the last operation that are iterations of update's loop.
FlightEvents ==
  {i \in DOMAIN events : events[i].kind \in {"expire", "hit", "fly"}}

\* C1: no projectile object is both in the active list and in the pool, and no
\* object appears twice in either list.
PoolAndActiveDisjoint ==
  /\ NoRepeat(projectiles)
  /\ NoRepeat(pool)
  /\ \A i \in 1..Len(projectiles) : ~InList(pool, projectiles[i])

\* C1 witness: an object taken back from the pool flies while another one lies
\* in the pool.
RecycledBesidePooled ==
  /\ Len(heap) = 2 /\ Len(pool) = 1 /\ Len(projectiles) = 1
  /\ events # <<>> /\ events[1].kind = "fire"

\* C2: between ticks every projectile of the active list is active with
\* 0 <= distanceTravelled <= maxDistance, and every projectile of the pool is
\* inactive with distanceTravelled = 0.
ActiveInRangePooledCleared ==
  /\ \A i \in 1..Len(projectiles) :
       LET p == heap[projectiles[i]]
       IN p.active /\ 0 <= p.distanceTravelled /\ p.distanceTravelled <= p.maxDistance
  /\ \A i \in 1..Len(pool) :
       LET p == heap[pool[i]]
       IN ~p.active /\ p.distanceTravelled = 0

\* C2 witness: one projectile has travelled and flies on, another one is back in
\* the pool after a tick.
TravelledBesidePooled ==
  /\ \E i \in 1..Len(projectiles) : heap[projectiles[i]].distanceTravelled > 0
  /\ Len(pool) > 0
  /\ FlightEvents # {}

\* The time t accumulated since the spawn has reached min(d / s, 2.5 s).
ReachedEnd(s, d, t) == s * t >= d \/ t >= DEFAULT_PROJECTILE_LIFETIME

\* C3: with no enemies, a projectile of speed s > 0 and range d leaves the active
\* list on the first tick at which the time accumulated since its spawn reaches
\* min(d / s, 2.5 s): no projectile still active has reached it, and one that
\* expired had not reached it before that tick.
RemovedExactlyAtEnd ==
  /\ \A i \in 1..Len(projectiles) :
       LET p == heap[projectiles[i]]
       IN p.speed > 0 => ~ReachedEnd(p.speed, p.maxDistance, p.age)
  /\ \A i \in FlightEvents :
       LET e == events[i]
       IN /\ e.enemiesAlive = 0 => e.kind \in {"expire", "fly"}
          /\ e.speed > 0 =>
               /\ ~ReachedEnd(e.speed, e.maxDistance, e.prevAge)
               /\ e.kind = "expire" <=> ReachedEnd(e.speed, e.maxDistance, e.age)
               /\ e.kind = "expire" <=> ~InList(projectiles, e.proj)

\* C3 witness: a projectile of range 10 units and speed 10 units per second was
\* still flying at 0.7 s and expired on the tick that took it to 1.2 s.
ExpiredPastOneSecond ==
  \E i \in FlightEvents :
     /\ events[i].kind = "expire"
     /\ events[i].speed = 100 /\ events[i].maxDistance = 1000
     /\ events[i].prevAge = 7 /\ events[i].age = 12

(***************************************************************************)
(* Properties of a tick of the projectile system against the roster.       *)
(***************************************************************************)
\* The damage of the hit events on enemy id among the first n events of evs.
RECURSIVE HitDamage(_, _, _)
HitDamage(evs, n, id) ==
  IF n = 0 THEN 0
  ELSE HitDamage(evs, n - 1, id)
       + (IF evs[n].kind = "hit" /\ evs[n].enemy = id THEN evs[n].damage ELSE 0)

\* C4: a projectile that expires in a tick is not queried for an impact in that
\* tick, no hit is reported for it, and every enemy's health after the tick is its
\* health before minus the damage of the hits reported for other projectiles.
ExpiryExcludesImpact ==
  [][\A i \in DOMAIN events' :
       events'[i].kind = "expire" =>
         /\ ~events'[i].queried
         /\ events'[i].enemy = 0
         /\ \A j \in DOMAIN events' : j # i => events'[j].proj # events'[i].proj
         /\ ~InList(projectiles', events'[i].proj)
         /\ Len(enemyEntries') = Len(enemyEntries)
         /\ \A k \in 1..Len(enemyEntries) :
              enemyEntries'[k].enemy.health =
                Max(0, enemyEntries[k].enemy.health
                       - HitDamage(events', Len(events'), enemyEntries[k].enemy.id))
    ]_vars

\* C4 witness: a projectile expired at a position inside an alive enemy's
\* hit-sphere.
ExpiredInsideEnemy ==
  \E i \in FlightEvents : events[i].kind = "expire" /\ events[i].inside

\* C5 as stated: a projectile that a tick takes into an alive enemy's hit-sphere
\* is deactivated by a hit in that tick, which lowers that enemy's health by the
\* projectile's damage.
LandingInsideEnemyHits ==
  \A i \in FlightEvents :
     events[i].inside =>
       /\ events[i].kind = "hit"
       /\ events[i].hpAfter = Max(0, events[i].hpBefore - events[i].damage)

\* C5 amended: a projectile that does not expire in a tick and whose position
\* after advancing lies inside the hit-sphere of an enemy alive at that moment
\* leaves the active list in that tick, a non-null impact is reported for it,
\* and the hit enemy's health goes from h to max(0, h - damage).
ImpactWhereItLands ==
  [][\A i \in DOMAIN events' :
       LET e == events'[i]
       IN (e.kind \in {"fly", "hit"} /\ e.inside) =>
            /\ e.kind = "hit"
            /\ e.enemy # 0
            /\ ~InList(projectiles', e.proj)
            /\ InList(pool', e.proj)
            /\ e.damage = heap[e.proj].damage
            /\ \E k \in 1..Len(enemyEntries) :
                 /\ enemyEntries[k].enemy.id = e.enemy
                 /\ e.hpBefore = Max(0, enemyEntries[k].enemy.health
                                        - HitDamage(events', i - 1, e.enemy))
                 /\ e.hpBefore > 0
                 /\ e.hpAfter = Max(0, e.hpBefore - e.damage)
                 /\ enemyEntries'[k].enemy.health =
                      Max(0, enemyEntries[k].enemy.health
                             - HitDamage(events', Len(events'), e.enemy))
    ]_vars

\* C5 witness: a hit took an enemy from 16 health to 0 with a damage of 22.
HitClampedAtZero ==
  \E i \in FlightEvents :
     /\ events[i].kind = "hit"
     /\ events[i].hpBefore = 16 /\ events[i].damage = 22 /\ events[i].hpAfter = 0

(***************************************************************************)
(* Properties of the impact query and of takeDamage.                       *)
(***************************************************************************)
\* The last operation was handleProjectileImpact called on its own.
IsImpact(evs) == evs # <<>> /\ evs[1].kind = "impact"

\* The nearest of the alive enemies containing the point, the first in roster
\* order among the nearest.
NearestContaining(entries, position) ==
  CHOOSE k \in AliveContaining(entries, position) :
    \A j \in AliveContaining(entries, position) :
      LET dk == distanceToSquared(entries[k].enemy.position, position)
          dj == distanceToSquared(entries[j].enemy.position, position)
      IN dk < dj \/ (dk = dj /\ k <= j)

\* C6: handleProjectileImpact returns null exactly when no alive enemy's
\* hit-sphere contains the position; otherwise it damages the nearest of the alive
\* enemies containing it, the first in roster order on ties, and no other entry
\* changes.
ImpactPicksNearestAlive ==
  [][IsImpact(events') =>
       LET position == events'[1].pos
           candidates == AliveContaining(enemyEntries, position)
       IN /\ Len(enemyEntries') = Len(enemyEntries)
          /\ (events'[1].enemy = 0) <=> (candidates = {})
          /\ candidates = {} => enemyEntries' = enemyEntries
          /\ candidates # {} =>
               LET h == NearestContaining(enemyEntries, position)
               IN /\ events'[1].enemy = enemyEntries[h].enemy.id
                  /\ enemyEntries'[h].enemy.health =
                       Max(0, enemyEntries[h].enemy.health - events'[1].damage)
                  /\ enemyEntries'[h].enemy.health < enemyEntries[h].enemy.health
                  /\ \A k \in 1..Len(enemyEntries) :
                       k # h => enemyEntries'[k] = enemyEntries[k]
    ]_vars

\* C6 witness: two alive grunts at 4.5 and 5.5 units, an impact at 5 units, as far
\* from one as from the other, and the first of the roster was hit.
ImpactOnTieHitFirst ==
  /\ IsImpact(events)
  /\ events[1].pos = 500
  /\ Len(enemyEntries) = 2
  /\ enemyEntries[1].enemy.isAlive /\ enemyEntries[2].enemy.isAlive
  /\ enemyEntries[1].enemy.position # enemyEntries[2].enemy.position
  /\ enemyEntries[2].enemy.health = enemyDefinitions[enemyEntries[2].enemy.type].maxHealth
  /\ events[1].enemy = enemyEntries[1].enemy.id

\* C7: in every impact result, wasFatal is true exactly when this call took the
\* enemy's health from above 0 to 0, and reward is the enemy's configured reward
\* when wasFatal and 0 otherwise.
RewardOnlyOnFatalHit ==
  [][(IsImpact(events') /\ events'[1].enemy # 0) =>
       \E k \in 1..Len(enemyEntries) :
          /\ enemyEntries[k].enemy.id = events'[1].enemy
          /\ events'[1].wasFatal <=>
               (enemyEntries[k].enemy.health > 0 /\ enemyEntries'[k].enemy.health = 0)
          /\ events'[1].reward =
               IF events'[1].wasFatal
               THEN enemyDefinitions[enemyEntries[k].enemy.type].reward
               ELSE 0
    ]_vars

\* C7 witness: a fatal impact on a runner reported its reward of 80, after a
\* non-fatal one.
FatalImpactOnRunner ==
  /\ IsImpact(events)
  /\ events[1].wasFatal /\ events[1].reward = 80
  /\ events[1].hpBefore < enemyDefinitions["runner"].maxHealth

\* The last operation was takeDamage called on its own.
IsTakeDamage(evs) == evs # <<>> /\ evs[1].kind = "takeDamage"

\* C8: takeDamage on a dead enemy returns false and changes nothing; on an alive
\* enemy it sets health to max(0, health - amount) and returns true exactly when
\* the new health is 0; no enemy ever had takeDamage return true twice.
TakeDamageContract ==
  [][/\ \A k \in 1..Len(enemyEntries') : enemyEntries'[k].enemy.fatalReturns <= 1
     /\ IsTakeDamage(events') =>
          \E k \in 1..Len(enemyEntries) :
             LET before == enemyEntries[k].enemy
                 after == enemyEntries'[k].enemy
             IN /\ before.id = events'[1].enemy
                /\ ~before.isAlive =>
                     /\ ~events'[1].wasFatal
                     /\ after = before
                     /\ after.health = 0
                /\ before.isAlive =>
                     /\ after.health = Max(0, before.health - events'[1].damage)
                     /\ events'[1].wasFatal <=> (after.health = 0)
                     /\ after.isAlive <=> ~events'[1].wasFatal
    ]_vars

\* C8 witness: takeDamage(60) on an enemy already dead returned false.
TakeDamageOnDead ==
  /\ IsTakeDamage(events)
  /\ ~events[1].aliveBefore /\ events[1].damage = 60 /\ ~events[1].wasFatal
  /\ \E k \in 1..Len(enemyEntries) :
       /\ enemyEntries[k].enemy.id = events[1].enemy
       /\ enemyEntries[k].enemy.fatalReturns = 1

\* C9: every enemy has 0 <= health <= maxHealth and isAlive = (health > 0); an
\* enemy just constructed, or just pushed to the roster, has full health and is
\* alive.
HealthWithinBounds ==
  /\ \A k \in 1..Len(enemyEntries) :
       LET enemy == enemyEntries[k].enemy
       IN /\ 0 <= enemy.health
          /\ enemy.health <= enemyDefinitions[enemy.type].maxHealth
          /\ enemy.isAlive <=> (enemy.health > 0)
  /\ \A enemy \in pendingSpawns :
       enemy.health = enemyDefinitions[enemy.type].maxHealth /\ enemy.isAlive
  /\ (events # <<>> /\ events[1].kind = "joined") =>
       LET enemy == enemyEntries[Len(enemyEntries)].enemy
       IN /\ enemy.id = events[1].enemy
          /\ enemy.health = enemyDefinitions[enemy.type].maxHealth
          /\ enemy.isAlive

\* C9 witness: the roster holds a wounded enemy and a dead one.
WoundedBesideDead ==
  /\ \E k \in 1..Len(enemyEntries) :
       /\ enemyEntries[k].enemy.isAlive
       /\ enemyEntries[k].enemy.health
            < enemyDefinitions[enemyEntries[k].enemy.type].maxHealth
  /\ \E k \in 1..Len(enemyEntries) : ~enemyEntries[k].enemy.isAlive

(***************************************************************************)
(* Properties of an enemy's death.                                         *)
(***************************************************************************)
\* C10: an enemy that is dead stays dead: in every later step it is not alive,
\* its position and its health of 0 do not change, it fires no attack callback,
\* and no new enemy takes its identity.
DeathIsTerminal ==
  [][\A k \in 1..Len(enemyEntries) :
       ~enemyEntries[k].enemy.isAlive =>
         LET dead == enemyEntries[k].enemy
         IN /\ \A j \in 1..Len(enemyEntries') :
                 enemyEntries'[j].enemy.id = dead.id =>
                   /\ ~enemyEntries'[j].enemy.isAlive
                   /\ enemyEntries'[j].enemy.position = dead.position
                   /\ enemyEntries'[j].enemy.health = 0
                   /\ enemyEntries'[j].deathTimer >= enemyEntries[k].deathTimer
            /\ \A i \in DOMAIN events' :
                 events'[i].kind = "attack" => events'[i].enemy # dead.id
            /\ \A enemy \in pendingSpawns' : enemy.id # dead.id
    ]_vars

\* C10 witness: a tick has passed over a dead enemy that stands within its attack
\* range of the player with its cooldown elapsed.
DeadInRangeAfterTick ==
  /\ events # <<>> /\ events[1].kind = "tick" /\ events[1].queried
  /\ \E k \in 1..Len(enemyEntries) :
       LET enemy == enemyEntries[k].enemy
       IN /\ ~enemy.isAlive
          /\ enemyEntries[k].deathTimer > 0
          /\ Abs(events[1].pos - enemy.position)
               <= enemyDefinitions[enemy.type].attackRange
          /\ enemy.timeSinceLastAttack + events[1].age
               >= enemyDefinitions[enemy.type].attackCooldown

(***************************************************************************)
(* Properties of the roster's cleanup.                                     *)
(***************************************************************************)
\* The last operation was EnemyManager.update.
IsTick(evs) == evs # <<>> /\ evs[1].kind = "tick"

\* The roster holds an enemy of this identity.
InRoster(entries, id) == \E j \in 1..Len(entries) : entries[j].enemy.id = id

\* C11: a dead enemy stays in the roster, its death timer the delta accumulated by
\* the manager's ticks since its death, until the first tick at which that sum is
\* at least 1.8 s, and that tick removes and disposes it; a tick removes nothing
\* else, and between ticks the roster loses nothing, unless reset() empties it.
RemovedWhenDelayReached ==
  [][/\ \A k \in 1..Len(enemyEntries') :
          /\ enemyEntries'[k].enemy.isAlive => enemyEntries'[k].deathTimer = 0
          /\ enemyEntries'[k].deathTimer < DEATH_CLEANUP_DELAY
     /\ IsTick(events') =>
          /\ \A k \in 1..Len(enemyEntries) :
               LET entry == enemyEntries[k]
                   sum == entry.deathTimer + events'[1].age
                   disposed == \E i \in DOMAIN events' :
                                  /\ events'[i].kind = "dispose"
                                  /\ events'[i].enemy = entry.enemy.id
               IN IF ~entry.enemy.isAlive /\ sum >= DEATH_CLEANUP_DELAY
                  THEN ~InRoster(enemyEntries', entry.enemy.id) /\ disposed
                  ELSE /\ ~disposed
                       /\ \E j \in 1..Len(enemyEntries') :
                            /\ enemyEntries'[j].enemy.id = entry.enemy.id
                            /\ enemyEntries'[j].deathTimer =
                                 IF entry.enemy.isAlive THEN 0 ELSE sum
          /\ \A i \in DOMAIN events' :
               events'[i].kind = "dispose" => InRoster(enemyEntries, events'[i].enemy)
     /\ (events' # <<>> /\ events'[1].kind \notin {"tick", "reset"}) =>
          \A k \in 1..Len(enemyEntries) :
             \E j \in 1..Len(enemyEntries') :
                /\ enemyEntries'[j].enemy.id = enemyEntries[k].enemy.id
                /\ enemyEntries'[j].deathTimer = enemyEntries[k].deathTimer
    ]_vars

\* C11 witness: a tick removed an enemy whose death timer reached 1.8 s exactly,
\* and kept another that had died later.
RemovedAtExactDelay ==
  /\ IsTick(events)
  /\ \E i \in DOMAIN events :
       /\ events[i].kind = "dispose"
       /\ events[i].prevAge > 0
       /\ events[i].age = DEATH_CLEANUP_DELAY
  /\ \E k \in 1..Len(enemyEntries) :
       ~enemyEntries[k].enemy.isAlive /\ enemyEntries[k].deathTimer > 0

(***************************************************************************)
(* Properties of the wave scheduler.                                       *)
(***************************************************************************)
\* The operation logged an event of this kind.
Logged(evs, kind) == \E i \in DOMAIN evs : evs[i].kind = kind

\* C12: a wave is composed only in a state whose roster holds no entry, alive or
\* dead, whose spawn queue is empty and whose waveInProgress is false; a queue that
\* is not empty never gains a token.
ComposedOnlyWhenAllEmpty ==
  [][/\ Logged(events', "compose") =>
          /\ Len(enemyEntries) = 0
          /\ Len(spawnQueue) = 0
          /\ ~waveInProgress
     /\ Len(spawnQueue) > 0 =>
          spawnQueue' \in {spawnQueue, Tail(spawnQueue), <<>>}
    ]_vars

\* C12 witness: the second wave has just been composed, after the seven enemies of
\* the first were spawned, killed and removed.
SecondWaveComposed ==
  /\ Logged(events, "compose")
  /\ wave = 2 /\ waveInProgress
  /\ enemiesCreated = 8
  /\ Len(enemyEntries) = 0 /\ Len(spawnQueue) = 8

\* C13: waves never overlap: when a wave is composed, every enemy constructed for
\* the wave before has joined the roster and left it; the only init() pending after
\* the composing tick is that of the first enemy of the new wave, which the same
\* tick constructed.
WavesNeverOverlap ==
  Logged(events, "compose") =>
    \A enemy \in pendingSpawns : enemy.id = enemiesCreated

\* How often a token occurs in a queue.
Count(queue, token) == Cardinality({i \in DOMAIN queue : queue[i] = token})

\* The queue as the composing tick's _enqueueWaveComposition left it: that tick
\* always dequeues the head at once, for the enemy it constructs last.
Composed(pending, created, queue) ==
  <<(CHOOSE enemy \in pending : enemy.id = created).type>> \o queue

\* C14: for every wave number w, the queue right after composition holds exactly
\* 5 + 2w grunts, floor(w/2) runners iff w >= 3, 1 + floor(w/6) brutes iff
\* w % 4 = 0, and nothing else, in whatever order.
CompositionFollowsWaveNumber ==
  [][Logged(events', "compose") =>
       LET w == wave
           queue == Composed(pendingSpawns', enemiesCreated', spawnQueue')
           runners == IF w >= 3 THEN w \div 2 ELSE 0
           brutes == IF w % 4 = 0 THEN 1 + (w \div 6) ELSE 0
       IN /\ Logged(events', "spawn")
          /\ Count(queue, "grunt") = 5 + 2 * w
          /\ Count(queue, "runner") = runners
          /\ Count(queue, "brute") = brutes
          /\ Len(queue) = 5 + 2 * w + runners + brutes
          /\ w = 1 => queue = repeat("grunt", 7)
          /\ w = 4 => (Count(queue, "grunt") = 13 /\ Count(queue, "runner") = 2
                         /\ Count(queue, "brute") = 1)
    ]_vars

\* C14 witness: wave 12 was composed with 29 grunts, 6 runners and 3 brutes, the
\* brutes first.
TwelfthWaveComposed ==
  /\ Logged(events, "compose")
  /\ wave = 12
  /\ Len(spawnQueue) = 37
  /\ Count(spawnQueue, "brute") = 2 /\ Count(spawnQueue, "runner") = 6
  /\ \E enemy \in pendingSpawns : enemy.type = "brute"

\* The tick dequeued a token and called spawnEnemy with it.
Attempted(evs) == Logged(evs, "spawn") \/ Logged(evs, "spawnNull")

\* C15, as stated: a tick dequeues at most one token, and a spawn attempt that
\* follows another, be it the first of a new wave, comes when the delta accumulated
\* since that other attempt has reached the spawnInterval in force.  Where nothing
\* resets the manager, spawnTimer before the tick plus the tick's delta is that sum.
AttemptsSpacedByInterval ==
  [][(IsTick(events') /\ Attempted(events')) =>
       /\ Len(spawnQueue') >= Len(spawnQueue) - 1
       /\ enemiesCreated' <= enemiesCreated + 1
       /\ enemiesCreated > 0 =>
            spawnTimer + events'[1].age * 100000 >= spawnInterval
    ]_vars

\* C15, amended: a tick dequeues at most one token; an attempt zeroes spawnTimer,
\* which then grows by each tick's delta and by nothing else; within a wave an
\* attempt comes only when it has reached spawnInterval; the first attempt of a
\* wave comes in the tick that composes the wave.
AttemptsSpacedWithinWave ==
  [][/\ IsTick(events') =>
          /\ Attempted(events') =>
               /\ spawnTimer' = 0
               /\ spawnQueue' = Tail(IF Logged(events', "compose")
                                     THEN Composed(pendingSpawns', enemiesCreated',
                                                   spawnQueue')
                                     ELSE spawnQueue)
               /\ enemiesCreated' <= enemiesCreated + 1
               /\ ~Logged(events', "compose") =>
                    spawnTimer + events'[1].age * 100000 >= spawnInterval
          /\ ~Attempted(events') =>
               /\ spawnTimer' = spawnTimer + events'[1].age * 100000
               /\ spawnQueue' = spawnQueue
               /\ enemiesCreated' = enemiesCreated
          /\ Logged(events', "compose") => Attempted(events')
     /\ (events' # <<>> /\ events'[1].kind \notin {"tick", "reset"}) =>
          spawnTimer' = spawnTimer
    ]_vars

\* C15 witness: the second enemy of the first wave was spawned by a tick of 0.6 s
\* that found the spawn timer past 3 s.
SecondSpawnOfWave ==
  /\ IsTick(events) /\ events[1].age = 6
  /\ Logged(events, "spawn") /\ ~Logged(events, "compose")
  /\ spawnTimer = 0
  /\ wave = 1 /\ enemiesCreated = 2

\* C16: whenever _handleSpawning dequeues a token, the alive enemies of the roster
\* number strictly fewer than maxActive.
AttemptOnlyBelowMaxActive ==
  [][(IsTick(events') /\ Attempted(events')) =>
       countActiveEnemies(enemyEntries) < maxActive
    ]_vars

\* C16 witness: in the third wave a tick spawned the eleventh enemy beside nine
\* alive ones, one fewer than maxActive.
SpawnedBesideNineAlive ==
  /\ IsTick(events) /\ Logged(events, "spawn") /\ ~Logged(events, "compose")
  /\ wave = 3 /\ maxActive = 10
  /\ countActiveEnemies(enemyEntries) = 9
  /\ enemiesCreated = 27

\* C17: a tick that finds the queue non-empty and the gate shut (spawnTimer, with
\* the tick's delta added, below spawnInterval, or as many alive enemies as
\* maxActive) dequeues nothing and leaves the queue, wave, spawnInterval, maxActive
\* and waveInProgress as they were; the queue loses a token only to a spawn
\* attempt, which takes its head, or all of them to reset().
ShutGateLeavesQueue ==
  [][/\ (/\ IsTick(events')
         /\ Len(spawnQueue) > 0
         /\ \/ spawnTimer + events'[1].age * 100000 < spawnInterval
            \/ countActiveEnemies(enemyEntries) >= maxActive) =>
          /\ ~Attempted(events')
          /\ enemiesCreated' = enemiesCreated
          /\ pendingSpawns' = pendingSpawns
          /\ spawnQueue' = spawnQueue
          /\ wave' = wave
          /\ spawnInterval' = spawnInterval
          /\ maxActive' = maxActive
          /\ waveInProgress' = waveInProgress
     /\ (Len(spawnQueue) > 0 /\ spawnQueue' # spawnQueue) =>
          \/ IsTick(events') /\ Attempted(events') /\ spawnQueue' = Tail(spawnQueue)
          \/ Logged(events', "reset") /\ spawnQueue' = <<>>
    ]_vars

\* C17 witness: a tick found the spawn timer past the interval and ten alive
\* enemies, as many as maxActive, and left the queue of the third wave as it was.
HeldBackByFullRoster ==
  /\ IsTick(events) /\ ~Attempted(events)
  /\ wave = 3 /\ Len(spawnQueue) = 2
  /\ spawnTimer >= spawnInterval + 1600000
  /\ countActiveEnemies(enemyEntries) = maxActive

(***************************************************************************)
(* Properties of the difficulty.                                           *)
(***************************************************************************)
\* C18: the spawn attempt that empties the queue raises wave by 1, multiplies
\* spawnInterval by 0.92 down to no less than 0.9 s, raises maxActive by 1 up to no
\* more than 24 and clears waveInProgress; every other attempt, and every tick
\* without one, leaves the four as they were.
EscalatesOnLastSpawn ==
  [][IsTick(events') =>
       IF Attempted(events') /\ spawnQueue' = <<>>
       THEN /\ wave' = wave + 1
            /\ spawnInterval' = Max(900000, (spawnInterval * 92) \div 100)
            /\ maxActive' = Min(24, maxActive + 1)
            /\ waveInProgress' = FALSE
       ELSE /\ wave' = wave
            /\ spawnInterval' = spawnInterval
            /\ maxActive' = maxActive
            /\ waveInProgress' = (waveInProgress \/ Logged(events', "compose"))
    ]_vars

\* C18 witness: the last spawn of wave 17 has left wave 18, the interval held at
\* its floor of 0.9 s and maxActive held at its cap of 24.
EscalatedAtFloorAndCap ==
  /\ IsTick(events) /\ Attempted(events)
  /\ spawnQueue = <<>> /\ ~waveInProgress
  /\ enemiesCreated = 47
  /\ wave = 18 /\ spawnInterval = 900000 /\ maxActive = 24

\* The bounds of the difficulty.
DifficultyInBounds(interval, active, w) ==
  /\ 900000 <= interval /\ interval <= DEFAULT_SPAWN_INTERVAL
  /\ DEFAULT_MAX_ACTIVE <= active /\ active <= 24
  /\ w >= 1

\* C19: in every state 0.9 s <= spawnInterval <= 3.2 s, 8 <= maxActive <= 24 and
\* wave >= 1; no step raises spawnInterval or lowers maxActive.
DifficultyBoundedAndMonotone ==
  /\ DifficultyInBounds(spawnInterval, maxActive, wave)
  /\ [][/\ DifficultyInBounds(spawnInterval', maxActive', wave')
        /\ spawnInterval' <= spawnInterval
        /\ maxActive' >= maxActive
       ]_vars

\* C19 witness: the fifty spawns of wave 18 are done and wave 19 is due, with the
\* interval still at 0.9 s and maxActive still at 24.
NineteenthWaveAtBounds ==
  /\ wave = 19 /\ enemiesCreated = 50
  /\ spawnInterval = 900000 /\ maxActive = 24

(***************************************************************************)
(* Properties of a token without a definition.                             *)
(***************************************************************************)
\* C20: a tick that takes a token without a definition off the queue logs the null
\* of spawnEnemy, constructs no enemy (none pending, none created, the roster
\* as it was), removes that one token, zeroes the spawn timer and escalates
\* exactly when the queue is then empty; wave 1 escalates when the six enemies
\* of its other tokens were constructed, and once a token was skipped in wave 1
\* the wave does go on to that end.
UnknownTokenSkipped ==
  /\ [][(IsTick(events') /\ Logged(events', "spawnNull")) =>
          /\ ~Logged(events', "spawn")
          /\ pendingSpawns' = pendingSpawns
          /\ enemiesCreated' = enemiesCreated
          /\ enemyEntries' = enemyEntries
          /\ Len(spawnQueue) > 0 => (/\ Head(spawnQueue) \notin DOMAIN enemyDefinitions
                                      /\ spawnQueue' = Tail(spawnQueue))
          /\ Len(spawnQueue) = 0 => (/\ Logged(events', "compose")
                                      /\ \A k \in 1..Len(spawnQueue') :
                                           spawnQueue'[k] \in DOMAIN enemyDefinitions)
          /\ spawnTimer' = 0
          /\ IF spawnQueue' = <<>>
             THEN /\ wave' = wave + 1 /\ ~waveInProgress'
                  /\ spawnInterval' = Max(900000, (spawnInterval * 92) \div 100)
                  /\ maxActive' = Min(24, maxActive + 1)
             ELSE /\ wave' = wave /\ waveInProgress'
                  /\ spawnInterval' = spawnInterval /\ maxActive' = maxActive
       ]_vars
  /\ [][(wave = 1 /\ wave' = 2) => enemiesCreated' = 6]_vars
  /\ (Logged(events, "spawnNull") /\ wave = 1) ~> (wave = 2 /\ enemiesCreated >= 6)

\* C20 witness: wave 1 is over and escalated with six enemies constructed for its
\* seven tokens.
WaveCompletedOneShort ==
  /\ wave = 2 /\ ~waveInProgress /\ spawnQueue = <<>>
  /\ enemiesCreated = 6 /\ Cardinality(pendingSpawns) = 6 /\ enemyEntries = <<>>


(***************************************************************************)
(* Properties of the game: restart, frame order, determinism.              *)
(***************************************************************************)
\* C21: in the state Game._resetGameState leaves, before any frame, the roster and
\* the spawn queue are empty, the wave is 1 and not in progress, the spawn timer is
\* 0, no projectile is active, the score is 0 and the player's health is its
\* maximum.
ResetLeavesFreshGame ==
  Logged(events, "restart") =>
    /\ enemyEntries = <<>>
    /\ spawnQueue = <<>>
    /\ wave = 1
    /\ ~waveInProgress
    /\ spawnTimer = 0
    /\ projectiles = <<>>
    /\ score = 0
    /\ playerHealth = playerStats.maxHealth

\* A game started again after the player died, with points scored, among living
\* enemies.
RestartedAfterDefeat ==
  /\ \E i \in 1..Len(events) :
       /\ events[i].kind = "restart"
       /\ events[i].hpBefore = 0
       /\ events[i].reward > 0
       /\ events[i].enemiesAlive > 0
  /\ enemyEntries = <<>>
  /\ playerHealth = playerStats.maxHealth
  /\ ~isGameOver

\* C22: an enemy whose init() was pending when the game was started again is in no
\* roster of the new game: every roster entry was requested after the last reset.
NoStaleEnemyJoins ==
  \A k \in 1..Len(enemyEntries) : enemyEntries[k].enemy.id \notin staleSpawns

\* C23: ProjectileSystem.reset() leaves the active list empty and every projectile
\* that was active in the pool, with active false, distanceTravelled 0 and
\* timeToLive 0; it keeps the pooled ones pooled and the number of projectile
\* objects, active plus pooled, as it was.
ResetPoolsEveryProjectile ==
  [][Logged(events', "resetProjectiles") =>
       /\ projectiles' = <<>>
       /\ \A i \in 1..Len(projectiles) :
            /\ InList(pool', projectiles[i])
            /\ ~heap'[projectiles[i]].active
            /\ heap'[projectiles[i]].distanceTravelled = 0
            /\ heap'[projectiles[i]].timeToLive = 0
       /\ \A i \in 1..Len(pool) : InList(pool', pool[i])
       /\ Len(projectiles') + Len(pool') = Len(projectiles) + Len(pool)
       /\ Len(heap') = Len(heap)]_vars

\* A reset that found two projectiles in flight and pooled both.
ResetFoundTwoInFlight ==
  /\ events = <<[NoEvent EXCEPT !.kind = "resetProjectiles", !.found = 2]>>
  /\ projectiles = <<>>
  /\ Len(pool) = 2

\* C24: projectile objects are never destroyed and one is constructed only when
\* the pool is empty: the objects ever constructed are the active ones plus the
\* pooled ones, and their number is the most projectiles that were ever active at
\* one time.
ConstructedIsHighWaterMark ==
  /\ [](/\ Len(heap) = Len(projectiles) + Len(pool)
        /\ \A id \in 1..Len(heap) : InList(projectiles, id) \/ InList(pool, id)
        /\ Len(heap) = highWater)
  /\ [][/\ Len(heap') >= Len(heap)
        /\ Len(heap') > Len(heap) => pool = <<>> /\ Len(heap') = Len(heap) + 1]_vars

\* A pooled object flies again beside another in flight: two were constructed,
\* two were the most ever active, and the first is the one just spawned.
RecycledAtHighWater ==
  /\ Len(heap) = 2
  /\ highWater = 2
  /\ Len(projectiles) = 2
  /\ \E i \in 1..Len(events) : events[i].kind = "fire" /\ events[i].proj = 1

\* The phase of Game.update an event belongs to: 1 the player's movement, 2 the
\* weapon, 3 the enemy manager with the onPlayerDamaged callbacks, 4 the
\* projectile system with the onEnemyHit callbacks.
phaseOf(kind) ==
  CASE kind = "frame" -> 0
    [] kind = "move" -> 1
    [] kind = "fire" -> 2
    [] kind \in {"fly", "hit", "expire"} -> 4
    [] OTHER -> 3

\* evs is the history of a frame.
IsFrame(evs) == Len(evs) > 0 /\ evs[1].kind = "frame"

\* The phases of the frame follow one another in their order, and the player's
\* movement and the enemy manager's tick are among them.
PhasesInOrder(evs) ==
  /\ \A i, j \in 1..Len(evs) : i < j => phaseOf(evs[i].kind) <= phaseOf(evs[j].kind)
  /\ Logged(evs, "move")
  /\ Logged(evs, "tick")

\* An enemy that a projectile killed in the frame is where Enemy.update of this
\* frame took it from where it was before the frame, with the attack timer that
\* update left; if that update attacked, the attack is in the history before the hit.
KilledHadItsTurn(evs, before, after, playerPosition) ==
  \A i \in 1..Len(evs) :
    evs[i].kind = "hit" /\ evs[i].wasFatal =>
      \E k \in 1..Len(before), l \in 1..Len(after) :
        /\ before[k].enemy.id = evs[i].enemy
        /\ after[l].enemy.id = evs[i].enemy
        /\ before[k].enemy.isAlive
        /\ ~after[l].enemy.isAlive
        /\ LET u == Enemy_update(before[k].enemy, evs[1].age, TRUE, playerPosition)
           IN /\ after[l].enemy.position = u.enemy.position
              /\ after[l].enemy.timeSinceLastAttack = u.enemy.timeSinceLastAttack
              /\ u.attacked =>
                   \E j \in 1..(i - 1) :
                     evs[j].kind = "attack" /\ evs[j].enemy = evs[i].enemy

\* The projectile fired at place i of the frame's history is advanced in the frame.
AdvancedInFrame(evs, i) ==
  \E j \in (i + 1)..Len(evs) :
    /\ evs[j].kind \in {"fly", "hit", "expire"}
    /\ evs[j].proj = evs[i].proj
    /\ evs[j].prevAge = 0
    /\ evs[j].age = evs[1].age

Outcome(g) ==
  LET spawns == SelectSeq(g.events, LAMBDA e : e.kind = "spawn")
      hits == SelectSeq(g.events, LAMBDA e : e.kind = "hit")
  IN [spawns |-> [i \in 1..Len(spawns) |-> <<spawns[i].enemy, spawns[i].pos>>],
      hits |-> [i \in 1..Len(hits) |-> <<hits[i].proj, hits[i].enemy, hits[i].wasFatal>>],
      deaths |-> {g.m.entries[k].enemy.id : k \in {j \in 1..Len(g.m.entries) :
                                                   ~g.m.entries[j].enemy.isAlive}},
      score |-> g.score,
      wave |-> g.m.wave,
      waveInProgress |-> g.m.waveInProgress,
      spawnQueue |-> g.m.spawnQueue,
      spawnTimer |-> g.m.spawnTimer]

AttacksOf(evs, id) == {i \in 1..Len(evs) : evs[i].kind = "attack" /\ evs[i].enemy = id}

\* The enemy with that identity in the roster.
EntryOf(entries, id) ==
  entries[CHOOSE k \in 1..Len(entries) : entries[k].enemy.id = id].enemy

\* C27: an alive enemy attacks at most once in a frame, only in a frame at whose
\* start it is within attackRange of the player, and only when the delta
\* accumulated since its last attack (its timer, which every frame without an
\* attack raises by delta and every attack resets to 0) has reached attackCooldown;
\* the callback carries the damage of the enemy's definition.
AttackOnCooldownInRange ==
  [][IsFrame(events') =>
       \A k \in 1..Len(enemyEntries) :
         LET enemy == enemyEntries[k].enemy
             config == enemyDefinitions[enemy.type]
             attacks == AttacksOf(events', enemy.id)
         IN enemy.isAlive =>
              /\ Cardinality(attacks) <= 1
              /\ InRoster(enemyEntries', enemy.id)
              /\ \A i \in attacks :
                   /\ Abs(playerGroupPosition' - enemy.position) <= config.attackRange
                   /\ enemy.timeSinceLastAttack + events'[1].age >= config.attackCooldown
                   /\ events'[i].damage = config.damage
                   /\ EntryOf(enemyEntries', enemy.id).timeSinceLastAttack = 0
                   /\ (~isGameOver /\ \A j \in 1..(i - 1) : events'[j].kind # "gameOver") =>
                        /\ i < Len(events')
                        /\ events'[i + 1].kind = "playerDamage"
                        /\ events'[i + 1].enemy = enemy.id
                        /\ events'[i + 1].damage = config.damage
              /\ attacks = {} =>
                   EntryOf(enemyEntries', enemy.id).timeSinceLastAttack
                     = enemy.timeSinceLastAttack + events'[1].age]_vars

\* A grunt attacks again, 1.4 s after its attack before, and the player loses 10
\* health for the second time at least.
AttackedAgainAfterCooldown ==
  /\ IsFrame(events)
  /\ \E i \in 1..(Len(events) - 1) :
       /\ events[i].kind = "attack"
       /\ events[i].prevAge = enemyDefinitions["grunt"].attackCooldown
       /\ events[i + 1].kind = "playerDamage"
       /\ events[i + 1].damage = enemyDefinitions["grunt"].damage
       /\ events[i + 1].hpAfter <= playerStats.maxHealth - 20

\* C28: in every state, the init() calls still pending or not, the enemies alive
\* in the roster are at most maxActive.
AliveWithinMaxActive ==
  countActiveEnemies(enemyEntries) <= maxActive

\* C29: in a frame an alive enemy either moves or may attack, never both: within
\* attackRange of the player at the start of the frame it stays where it is;
\* farther away it moves by speed * delta towards the player and does not attack.
MovesOrAttacks ==
  [][IsFrame(events') =>
       \A k \in 1..Len(enemyEntries) :
         LET enemy == enemyEntries[k].enemy
             config == enemyDefinitions[enemy.type]
             toPlayer == playerGroupPosition' - enemy.position
         IN enemy.isAlive =>
              /\ InRoster(enemyEntries', enemy.id)
              /\ Abs(toPlayer) <= config.attackRange =>
                   EntryOf(enemyEntries', enemy.id).position = enemy.position
              /\ Abs(toPlayer) > config.attackRange =>
                   /\ EntryOf(enemyEntries', enemy.id).position
                        = enemy.position + normalize(toPlayer) * config.speed * events'[1].age
                   /\ AttacksOf(events', enemy.id) = {}]_vars

\* A frame in which one grunt attacked from where it stood, inside its range, while
\* another, still out of range, walked on without attacking.
AttackerStoodSeekerWalked ==
  /\ IsFrame(events)
  /\ \E i \in 1..Len(events) :
       /\ events[i].kind = "attack"
       /\ events[i].prevPos = events[i].pos
       /\ Abs(playerGroupPosition - events[i].pos) <= enemyDefinitions["grunt"].attackRange
       /\ EntryOf(enemyEntries, events[i].enemy).position = events[i].pos
  /\ \E k \in 1..Len(enemyEntries) :
       /\ enemyEntries[k].enemy.isAlive
       /\ AttacksOf(events, enemyEntries[k].enemy.id) = {}
       /\ enemyEntries[k].enemy.timeSinceLastAttack >= events[1].age
       /\ Abs(playerGroupPosition - enemyEntries[k].enemy.position)
            > enemyDefinitions["grunt"].attackRange

(***************************************************************************)
(* Properties of a hit.                                                    *)
(***************************************************************************)
\* The places of the history where enemy id is hit, and the rewards of the
\* history's fatal hits, which is what onEnemyHit adds to the score.
HitsOn(evs, id) == {i \in 1..Len(evs) : evs[i].kind = "hit" /\ evs[i].enemy = id}

RECURSIVE RewardOfHits(_, _)
RewardOfHits(evs, i) ==
  IF i > Len(evs) THEN 0
  ELSE RewardOfHits(evs, i + 1)
         + (IF evs[i].kind = "hit" /\ evs[i].wasFatal /\ evs[i].reward > 0
            THEN evs[i].reward ELSE 0)

\* C30: a projectile that hits is queried once in that tick, takes its damage from
\* the one enemy of the impact, once, and is out of the active list and in the
\* pool when the tick ends, so its flight has one hit at most; the enemies that no
\* hit names keep their health, and in a frame of the game onEnemyHit has added
\* the reward of each fatal hit to the score once.
HitOnceThenPooled ==
  [][/\ \A i \in 1..Len(events') :
          events'[i].kind = "hit" =>
            /\ ~InList(projectiles', events'[i].proj)
            /\ InList(pool', events'[i].proj)
            /\ ~heap'[events'[i].proj].active
            /\ \A j \in 1..Len(events') :
                 (j # i /\ events'[j].kind \in {"hit", "fly", "expire"}) =>
                   events'[j].proj # events'[i].proj
            /\ InRoster(enemyEntries, events'[i].enemy)
            /\ events'[i].hpAfter = Max(0, events'[i].hpBefore - events'[i].damage)
            /\ \/ /\ \A j \in HitsOn(events', events'[i].enemy) : j >= i
                  /\ events'[i].hpBefore = EntryOf(enemyEntries, events'[i].enemy).health
               \/ \E j \in HitsOn(events', events'[i].enemy) :
                    /\ j < i
                    /\ events'[i].hpBefore = events'[j].hpAfter
            /\ \/ /\ \A j \in HitsOn(events', events'[i].enemy) : j <= i
                  /\ events'[i].hpAfter = EntryOf(enemyEntries', events'[i].enemy).health
               \/ \E j \in HitsOn(events', events'[i].enemy) : j > i
     /\ (Logged(events', "hit") \/ Logged(events', "fly")) =>
          \A k \in 1..Len(enemyEntries) :
            (HitsOn(events', enemyEntries[k].enemy.id) = {}
               /\ InRoster(enemyEntries', enemyEntries[k].enemy.id)) =>
              EntryOf(enemyEntries', enemyEntries[k].enemy.id).health
                = enemyEntries[k].enemy.health
     /\ IsFrame(events') => score' = score + RewardOfHits(events', 1)]_vars

\* A frame in which a shot hit a grunt without killing it, beside another grunt:
\* the projectile is pooled, the grunt has 38 health left and the other its 60.
HitGruntLivesShotPooled ==
  /\ IsFrame(events)
  /\ \E i \in 1..Len(events) :
       /\ events[i].kind = "hit"
       /\ ~events[i].wasFatal
       /\ InList(pool, events[i].proj)
       /\ projectiles = <<>>
       /\ EntryOf(enemyEntries, events[i].enemy).health
            = enemyDefinitions["grunt"].maxHealth - pistol.damage
       /\ \E k \in 1..Len(enemyEntries) :
            /\ enemyEntries[k].enemy.id # events[i].enemy
            /\ enemyEntries[k].enemy.health = enemyDefinitions["grunt"].maxHealth
  /\ score = 0
(***************************************************************************)
(* Properties of a whole session.                                          *)
(***************************************************************************)
\* A tick of WaveTick is within the bounds of the model: the timer, the scheduling
\* and the spawning of EnemyManager.update, which the roster loop leaves as they are.
TickWithinBounds(deltas, limit, inFlight) ==
  \E delta \in deltas :
    \E shuffled \in (IF waveInProgress \/ Len(enemyEntries) > 0 \/ Len(spawnQueue) > 0
                     THEN {spawnQueue}
                     ELSE sampleWaveComposition(spawnQueue, wave)),
       spawnPosition \in spawnPositionsRelativeTo(FALSE, 0, {1}, {0}) :
      LET m1 == [Manager EXCEPT !.spawnTimer = @ + delta * 100000]
          m3 == handleSpawning(maybeScheduleNewWave(m1, shuffled), spawnPosition)
      IN /\ m3.spawnTimer <= MaxSpawnTimer
         /\ m3.created <= limit
         /\ Cardinality(m3.pending) <= inFlight

\* Fair ticking: the game loop ticks again and again, for as long as the model
\* has a tick to give (weak fairness of WaveTick).
LoopKeepsTicking ==
  \/ []<>(~TickWithinBounds({16}, MaxCrowdEnemies, 1))
  \/ []<><<IsTick(events')>>_vars

\* Every init() resolves: again and again no spawn is pending.
InitsResolve == []<>(pendingSpawns = {})

\* The roster has room infinitely often.
RoomInfinitelyOften == []<>(countActiveEnemies(enemyEntries) < maxActive)

\* C31: where the game loop keeps ticking (with a delta of 1.6 s), every init()
\* resolves, nothing resets the manager and the alive enemies number fewer than
\* maxActive infinitely often, a wave that is composed is spawned to its last
\* token: whatever is left of the queue of wave 3, a state follows in which the
\* queue is empty, the wave number is 4 and all twelve enemies of the wave were
\* constructed.
SpawnsDeferredNotLost ==
  (LoopKeepsTicking /\ InitsResolve /\ RoomInfinitelyOften) =>
    ((wave = 3 /\ waveInProgress /\ Len(spawnQueue) > 0)
       ~> (wave = 4 /\ spawnQueue = <<>> /\ enemiesCreated = WaveSize(3)))

\* C31 witness: a tick spawned the last token of wave 3 beside nine alive enemies,
\* one fewer than maxActive was, and one that died since the tick before.
LastSpawnAfterWait ==
  /\ IsTick(events) /\ Logged(events, "spawn")
  /\ wave = 4 /\ spawnQueue = <<>> /\ enemiesCreated = WaveSize(3)
  /\ maxActive = 11 /\ countActiveEnemies(enemyEntries) = 9
  /\ \E k \in 1..Len(enemyEntries) :
       ~enemyEntries[k].enemy.isAlive /\ enemyEntries[k].deathTimer = 16

\* C32: in a frame an alive enemy that is out of attackRange of the player does
\* not attack and its timer grows by the frame's delta, as it does in range; an
\* alive enemy that is within attackRange and whose timer, with the delta added,
\* has reached attackCooldown attacks in that frame, once, and its timer is 0
\* after it.  So an enemy that sought the player for attackCooldown or longer
\* attacks in the first frame that finds it in range.
TimerRunsWhileSeeking ==
  [][IsFrame(events') =>
       \A k \in 1..Len(enemyEntries) :
         LET enemy == enemyEntries[k].enemy
             config == enemyDefinitions[enemy.type]
             waited == enemy.timeSinceLastAttack + events'[1].age
             distance == Abs(playerGroupPosition' - enemy.position)
             attacks == AttacksOf(events', enemy.id)
         IN enemy.isAlive =>
              /\ distance > config.attackRange =>
                   /\ attacks = {}
                   /\ EntryOf(enemyEntries', enemy.id).timeSinceLastAttack = waited
                   /\ Abs(playerGroupPosition' - EntryOf(enemyEntries', enemy.id).position)
                        = distance - config.speed * events'[1].age
              /\ (distance <= config.attackRange /\ waited >= config.attackCooldown) =>
                   /\ Cardinality(attacks) = 1
                   /\ EntryOf(enemyEntries', enemy.id).timeSinceLastAttack = 0
    ]_vars

\* C32 witness: a grunt attacks 1.3 units from the player, where the frame before
\* left it, with the 5.2 s of all its 26 frames on its timer: its first attack, in
\* its first frame in range.
FirstFrameInRangeFires ==
  \E i \in 1..Len(events) :
    /\ events[i].kind = "attack"
    /\ events[i].pos = 130 /\ events[i].pos + 110 > enemyDefinitions["grunt"].attackRange
    /\ events[i].prevAge = 52
    /\ playerHealth = playerStats.maxHealth - enemyDefinitions["grunt"].damage

\* C33: EnemyManager.reset(), called on its own or by Game._resetGameState, sets
\* wave to 1 and leaves spawnInterval and maxActive as it found them.
ResetKeepsDifficulty ==
  [][Logged(events', "reset") =>
       /\ wave' = 1
       /\ spawnInterval' = spawnInterval
       /\ maxActive' = maxActive
    ]_vars

\* C33 witness: a game started again at wave 1 with the spawn interval of 2.944 s
\* and the maxActive of 9 that the last spawn of the first wave of the game before
\* had left.
RestartedWithEscalatedDifficulty ==
  /\ Logged(events, "reset") /\ Logged(events, "restart")
  /\ wave = 1
  /\ spawnInterval = spawnIntervalAfter(1) /\ spawnInterval < DEFAULT_SPAWN_INTERVAL
  /\ maxActive = DEFAULT_MAX_ACTIVE + 1

\* The sum of the rewards enemyDefinitions gives the types of the enemies of a list.
RECURSIVE RewardsOf(_)
RewardsOf(list) ==
  IF list = <<>> THEN 0
  ELSE enemyDefinitions[Head(list).type].reward + RewardsOf(Tail(list))

\* C34: the score is the sum of the rewards of the definitions of the enemies that
\* projectiles killed since the last start(), each enemy counted once; a step
\* changes the score only by setting it to 0 in a start(), or in a frame by adding
\* the reward of each enemy a hit of the frame killed; between two starts the
\* score never decreases.
ScoreIsRewardOfKilled ==
  /\ score = RewardsOf(killed)
  /\ [][/\ score' = RewardsOf(killed')
        /\ NoRepeat([k \in 1..Len(killed') |-> killed'[k].id])
        /\ Logged(events', "restart") => score' = 0
        /\ ~Logged(events', "restart") =>
             /\ score' >= score
             /\ score' # score =>
                  /\ IsFrame(events')
                  /\ \E i \in 1..Len(events') :
                       events'[i].kind = "hit" /\ events'[i].wasFatal
                  /\ score' = score + RewardOfHits(events', 1)
                  /\ \A i \in 1..Len(events') :
                       (events'[i].kind = "hit" /\ events'[i].wasFatal) =>
                         /\ EntryOf(enemyEntries, events'[i].enemy).isAlive
                         /\ ~EntryOf(enemyEntries', events'[i].enemy).isAlive
                         /\ events'[i].reward
                              = enemyDefinitions[
                                  EntryOf(enemyEntries, events'[i].enemy).type].reward
       ]_vars

\* C34 witness: the sixth enemy was killed in the game started after the player
\* died among the first five, none of which is left: it is the one enemy killed
\* since that start and the score is its reward.
KilledAfterRestart ==
  /\ enemiesCreated = 6
  /\ killed = <<[id |-> 6, type |-> "grunt"]>>
  /\ score = enemyDefinitions["grunt"].reward
  /\ \A k \in 1..Len(enemyEntries) : enemyEntries[k].enemy.id = 6

\* The player's health h is within its bounds and the game is over exactly when
\* it is 0.
PlayerHealthOk(h, over) ==
  /\ h \in 0..playerStats.maxHealth
  /\ over <=> (h = 0)

\* The "playerDamage" events of a frame.
DamagesOf(evs) == {i \in 1..Len(evs) : evs[i].kind = "playerDamage"}

\* The game is over when event i of a frame happens: it was over before the frame
\* or the player died earlier in the frame.
OverBy(over, evs, i) == over \/ \E j \in 1..(i - 1) : evs[j].kind = "gameOver"

\* C35: between Game operations the player's health is in 0..maxHealth and the
\* game is over exactly when the health is 0.  In a frame every attack delivered
\* while the game is not over is followed by the damage of the player: the
\* attacker's configured damage less the armor, at least 1, taken from the health
\* the attack found and clamped at 0; the health after the frame is what the last
\* of them left, and nothing else changes it.
PlayerHealthBoundedOverAtZero ==
  /\ PlayerHealthOk(playerHealth, isGameOver)
  /\ [][/\ PlayerHealthOk(playerHealth', isGameOver')
        /\ IsFrame(events') =>
             LET evs == events'
                 D == DamagesOf(evs)
             IN /\ \A i \in 1..Len(evs) :
                     (evs[i].kind = "attack" /\ ~OverBy(isGameOver, evs, i)) =>
                       /\ i + 1 \in D
                       /\ evs[i + 1].enemy = evs[i].enemy
                       /\ evs[i].damage =
                            enemyDefinitions[EntryOf(enemyEntries', evs[i].enemy).type].damage
                       /\ evs[i + 1].damage = Max(1, evs[i].damage - playerStats.armor)
                /\ \A i \in D :
                     /\ i > 1 /\ evs[i - 1].kind = "attack"
                     /\ ~OverBy(isGameOver, evs, i - 1)
                     /\ evs[i].hpAfter = Max(0, evs[i].hpBefore - evs[i].damage)
                     /\ evs[i].hpBefore =
                          IF \E j \in D : j < i
                          THEN evs[CHOOSE j \in D : j < i /\ \A o \in D : o < i => o <= j].hpAfter
                          ELSE playerHealth
                /\ playerHealth' =
                     IF D = {} THEN playerHealth
                     ELSE evs[CHOOSE j \in D : \A o \in D : o <= j].hpAfter]_vars

\* C35 witness: the attack that killed the player found less health than its
\* damage: the health is 0, not below, and the game is over.
FinalBlowClamped ==
  /\ IsFrame(events) /\ isGameOver /\ playerHealth = 0
  /\ \E i \in DamagesOf(events) :
       /\ events[i].hpBefore > 0
       /\ events[i].hpBefore < events[i].damage
       /\ events[i].hpAfter = 0

\* The "gameOver" events of a step: the dispatches of 'game:over'.
OversOf(evs) == {i \in 1..Len(evs) : evs[i].kind = "gameOver"}

\* C36: 'game:over' is dispatched in a frame exactly when the player's health goes
\* from above 0 to 0 in it, once, right after the damage that emptied the health,
\* however many attacks follow in the frame; no frame of a game that is over
\* dispatches it and no other step does; a game that is over stays over until
\* start() resets it.  start() while the game is running and not over changes
\* nothing.
GameOverOncePerSession ==
  [][/\ IsFrame(events') =>
          /\ Cardinality(OversOf(events')) <= 1
          /\ (OversOf(events') # {}) <=> (playerHealth > 0 /\ playerHealth' = 0)
          /\ isGameOver => OversOf(events') = {}
          /\ \A i \in OversOf(events') :
               /\ i > 1 /\ events'[i - 1].kind = "playerDamage"
               /\ events'[i - 1].hpBefore > 0 /\ events'[i - 1].hpAfter = 0
               /\ \A j \in (i + 1)..Len(events') : events'[j].kind # "playerDamage"
     /\ ~IsFrame(events') => OversOf(events') = {}
     /\ (isGameOver /\ ~isGameOver') => Logged(events', "restart")
     /\ Logged(events', "start") => Game' = Game]_vars

\* C36 witness: the second game of the session is over: the player died again
\* (nothing was killed since the restart), 'game:over' was dispatched once in the
\* frame and another enemy attacked later in the same frame.
DiedAgainUnderSeveralAttacks ==
  /\ IsFrame(events) /\ isGameOver /\ killed = <<>>
  /\ Cardinality(OversOf(events)) = 1
  /\ \E i \in OversOf(events) :
       \E j \in (i + 1)..Len(events) : events[j].kind = "attack"

\* C37: whenever the game is over no projectile is active.  A frame of a game that
\* is over (the frames from the one after the player's death to the next start())
\* fires no shot, constructs and activates no projectile, lands no hit, leaves
\* the health of every enemy, the enemies killed, the score and the player's
\* health as they were and leaves the game over; every alive enemy stays in the
\* roster, those out of their attackRange still walk towards the player, and the
\* enemy manager still ticks.
FrozenWhileGameOver ==
  /\ isGameOver => projectiles = <<>>
  /\ [][/\ isGameOver' => projectiles' = <<>>
        /\ (IsFrame(events') /\ isGameOver) =>
             /\ isGameOver'
             /\ ~Logged(events', "fire") /\ ~Logged(events', "fly")
             /\ ~Logged(events', "hit") /\ ~Logged(events', "playerDamage")
             /\ heap' = heap /\ pool' = pool
             /\ score' = score /\ playerHealth' = playerHealth /\ killed' = killed
             /\ Logged(events', "tick")
             /\ \A k \in 1..Len(enemyEntries) :
                  LET before == enemyEntries[k].enemy
                  IN /\ before.isAlive =>
                          \E n \in 1..Len(enemyEntries') :
                            enemyEntries'[n].enemy.id = before.id
                     /\ \A n \in 1..Len(enemyEntries') :
                          LET after == enemyEntries'[n].enemy
                          IN after.id = before.id =>
                               /\ after.health = before.health
                               /\ after.isAlive = before.isAlive
                               /\ (before.isAlive
                                     /\ before.position - playerGroupPosition'
                                          > enemyDefinitions[before.type].attackRange) =>
                                    after.position = before.position
                                      - enemyDefinitions[before.type].speed
                                          * events'[1].age]_vars

\* C37 witness: a frame of 1.6 s of a game that was over before it: a grunt
\* walked its second 8.8 units from where it spawned (a spawn is due every other
\* frame), another enemy was spawned, one in range attacked for nothing, and the
\* score of the two waves stands with no projectile active.
WalkedAndSpawnedWhileOver ==
  /\ IsFrame(events) /\ isGameOver /\ OversOf(events) = {}
  /\ Logged(events, "spawn") /\ Logged(events, "attack")
  /\ projectiles = <<>> /\ playerHealth = 0
  /\ score = (WaveSize(1) + WaveSize(2)) * enemyDefinitions["grunt"].reward
  /\ \E k \in 1..Len(enemyEntries) :
       /\ enemyEntries[k].enemy.isAlive /\ enemyEntries[k].enemy.type = "grunt"
       /\ enemyEntries[k].enemy.position
            = spawnRadius - 2 * enemyDefinitions["grunt"].speed * 16
====
